---- MODULE Spec2Model ----
(***************************************************************************)
(* Model of the simulation engine of leverage_strategy_backtester:         *)
(* Backtester.__init__, Backtester.check_buy_limits and Backtester.run of  *)
(* src/backtest_engine.py.                                                 *)
(*                                                                         *)
(* Money and share quantities are Python floats in the source; here they   *)
(* are exact rationals <<numerator, denominator>> in lowest terms, so that *)
(* every equality below is an equality of the real-number results of the   *)
(* source's expressions.  Prices and percentages are integers.  Dates are  *)
(* day numbers (calendar days since the start date).                       *)
(***************************************************************************)
EXTENDS Integers, Sequences, FiniteSets, TLC

(***************************************************************************)
(* Bounds                                                                  *)
(***************************************************************************)
\* index of the last row of the price table (rows 0 .. MaxDays)
MaxDays == 3

(***************************************************************************)
(* Exact rational arithmetic                                               *)
(***************************************************************************)
Abs(x) == IF x < 0 THEN -x ELSE x

Max(a, b) == IF a >= b THEN a ELSE b

RECURSIVE GCD(_, _)
GCD(a, b) == IF b = 0 THEN a ELSE GCD(b, a % b)

Norm(n, d) ==
  LET g == GCD(Abs(n), Abs(d))
      s == IF d < 0 THEN -1 ELSE 1
  IN  <<(s * n) \div g, (s * d) \div g>>

R(n) == <<n, 1>>

Zero == R(0)

\* a + b over the least common denominator
RAdd(a, b) ==
  LET g == GCD(a[2], b[2])
  IN  Norm(a[1] * (b[2] \div g) + b[1] * (a[2] \div g), (a[2] \div g) * b[2])

RNeg(a) == <<-a[1], a[2]>>

RSub(a, b) == RAdd(a, RNeg(b))

\* a * b, cancelling across the factors before multiplying
RMul(a, b) ==
  LET g1 == GCD(Abs(a[1]), b[2])
      g2 == GCD(Abs(b[1]), a[2])
  IN  <<(a[1] \div g1) * (b[1] \div g2), (a[2] \div g2) * (b[2] \div g1)>>

\* a / b for b # 0
RDiv(a, b) == RMul(a, IF b[1] < 0 THEN <<-b[2], -b[1]>> ELSE <<b[2], b[1]>>)

RLt(a, b) == RSub(a, b)[1] < 0

RLe(a, b) == RSub(a, b)[1] <= 0

RGt(a, b) == RLt(b, a)

RGe(a, b) == RLe(b, a)

\* x / 100.0
Pct(x) == Norm(x, 100)

(***************************************************************************)
(* Instruments and the price table                                         *)
(*                                                                         *)
(* "B" is the base instrument, "X" an add instrument that has columns in   *)
(* the price table, "Z" a step ticker that was not among the fetched       *)
(* tickers (run_simulation fetches only base + add tickers), so that       *)
(* prices.get("Z", 0) is 0 on every row.                                   *)
(***************************************************************************)
Tickers == {"B", "X", "Z"}

base_ticker == "B"

add_tickers == <<"X">>

ordered_tickers == <<base_ticker>> \o add_tickers

\* One row of the price table: the calendar gap to the previous row, the
\* base instrument's bar (open = high = low = close = bc) and X's bar.
Bars ==
  { [gap |-> 1, bc |-> 10, xo |-> 4, xh |-> 4, xc |-> 4],
    [gap |-> 1, bc |-> 8,  xo |-> 4, xh |-> 4, xc |-> 4],
    [gap |-> 1, bc |-> 5,  xo |-> 4, xh |-> 4, xc |-> 4],
    [gap |-> 1, bc |-> 10, xo |-> 8, xh |-> 8, xc |-> 4],
    [gap |-> 3, bc |-> 8,  xo |-> 4, xh |-> 5, xc |-> 4],
    [gap |-> 3, bc |-> 10, xo |-> 5, xh |-> 5, xc |-> 5] }

\* Rows of a price table that has no column of the base instrument at all
\* (no Close_<base>, High_<base>, Open_<base>, Peak_<base>).
BarsNoBase ==
  { [gap |-> 1, xo |-> 4, xh |-> 4, xc |-> 4],
    [gap |-> 3, xo |-> 5, xh |-> 5, xc |-> 5] }

\* prices = {t: row["Close_t"]}, and prices.get(t, 0).  A holding of an
\* instrument without a close column is valued 0 by ValueOf either way.
InPrices(t) == t \in {"B", "X"}

ClosePrice(b, t) ==
  CASE t = "B" -> (IF "bc" \in DOMAIN b THEN b.bc ELSE 0)
    [] t = "X" -> b.xc
    [] OTHER -> 0

\* row.get("High_t", curr_p) and row.get("Open_t", curr_p)
HighPrice(b, t) == CASE t = "X" -> b.xh [] OTHER -> ClosePrice(b, t)

OpenPrice(b, t) == CASE t = "X" -> b.xo [] OTHER -> ClosePrice(b, t)

(***************************************************************************)
(* Configuration                                                           *)
(***************************************************************************)
Step(d, s, t, p) == [drop_pct |-> d, shift_pct |-> s, ticker |-> t, profit_pct |-> p]

StepsTwoX == <<Step(-50, 50, "X", 25), Step(-20, 50, "X", 25)>>

StepsOneX == <<Step(-20, 50, "X", 25)>>

StepsFull == <<Step(-20, 100, "X", 25)>>

StepsBase == <<Step(20, 60, "B", 25), Step(-50, 60, "X", 25)>>

StepsMissing == <<Step(-20, 50, "Z", 25), Step(-50, 50, "X", 25)>>

StepsEmpty == << >>

StepsSmall == <<Step(-20, 10, "X", 25)>>

Cfg(sm, buf, ma, mode, per, mbd, mbw, fbd, st, hp) ==
  [sell_mode |-> sm, cash_buffer_pct |-> buf, use_ma_filter |-> ma,
   ma_mode |-> mode, ma_period |-> per, max_buys_day |-> mbd,
   max_buys_week |-> mbw, force_buy_days |-> fbd, steps |-> st,
   hist_peak |-> hp, initial_capital |-> 100, base_close |-> TRUE,
   start_date |-> << >>, end_date |-> << >>]

\* the same arguments with start_date = s and end_date = e supplied by the
\* caller (<< >> stands for an argument left at None; the first row of every
\* table is dated 0)
Dated(c, s, e) == [c EXCEPT !.start_date = <<s>>, !.end_date = <<e>>]

\* the same arguments with a price table that lacks the base columns
NoBase(c) == [c EXCEPT !.base_close = FALSE]

\* self.df: the rows the table of a configuration is made of
Table(c) == IF c.base_close THEN Bars ELSE BarsNoBase

\* The configurations the runs are started from: the constructor arguments
\* (the initial capital is 100 in all of them; base_close tells whether the
\* price table has the base instrument's columns).  hist_peak is the highest
\* base High of the year fetched before the start date (it enters the
\* provider's rolling 252-session Peak column).
Configs ==
  { Cfg("limit", 0,  FALSE, "defensive", 2, 0, 0, 0, StepsTwoX,    10),
    Cfg("close", 0,  FALSE, "defensive", 2, 0, 0, 0, StepsTwoX,    10),
    Cfg("limit", 10, FALSE, "defensive", 2, 1, 0, 0, StepsTwoX,    10),
    Cfg("limit", 0,  FALSE, "defensive", 2, 0, 1, 2, StepsTwoX,    0),
    Cfg("limit", 0,  FALSE, "defensive", 2, 0, 0, 3, StepsOneX,    0),
    Cfg("close", 0,  FALSE, "defensive", 2, 0, 0, 2, StepsTwoX,    10),
    Cfg("close", 10, FALSE, "defensive", 2, 0, 0, 0, StepsFull,    10),
    Cfg("limit", 0,  FALSE, "defensive", 2, 0, 0, 0, StepsBase,    10),
    Cfg("limit", 0,  FALSE, "defensive", 2, 1, 0, 2, StepsMissing, 10),
    Cfg("limit", 10, TRUE,  "defensive", 2, 0, 0, 0, StepsTwoX,    10),
    Cfg("close", 0,  TRUE,  "pause",     2, 0, 0, 2, StepsOneX,    10),
    Cfg("limit", 0,  FALSE, "defensive", 2, 0, 0, 2, StepsEmpty,   10),
    Cfg("limit", 10, TRUE,  "defensive", 2, 0, 0, 0, StepsFull,    10),
    Cfg("limit", 0,  TRUE,  "pause",     2, 0, 0, 2, StepsOneX,    10),
    NoBase(Cfg("limit", 10, FALSE, "defensive", 2, 0, 0, 2, StepsEmpty, 0)),
    NoBase(Cfg("limit", 10, TRUE,  "defensive", 2, 0, 0, 0, StepsEmpty, 0)),
    Dated(Cfg("limit", 0, FALSE, "defensive", 2, 0, 0, 3, StepsOneX, 10), -2, 20),
    Cfg("limit", 50, FALSE, "defensive", 2, 0, 0, 0, StepsSmall,   10),
    Cfg("limit", 0,  FALSE, "defensive", 2, 0, 1, 0, StepsTwoX,    10),
    Cfg("limit", 0,  TRUE,  "defensive", 3, 0, 0, 0, StepsOneX,    10) }

\* self.steps = sorted(steps, key=lambda x: abs(x['drop_pct'])): a stable
\* insertion sort by |drop_pct|.
RECURSIVE InsertStep(_, _)
InsertStep(sorted, s) ==
  IF sorted = << >> THEN <<s>>
  ELSE IF Abs(sorted[Len(sorted)].drop_pct) <= Abs(s.drop_pct)
       THEN Append(sorted, s)
       ELSE Append(InsertStep(SubSeq(sorted, 1, Len(sorted) - 1), s), sorted[Len(sorted)])

RECURSIVE SortFrom(_, _)
SortFrom(sorted, rest) ==
  IF rest = << >> THEN sorted
  ELSE SortFrom(InsertStep(sorted, Head(rest)), Tail(rest))

SortSteps(st) == SortFrom(<< >>, st)

(***************************************************************************)
(* State                                                                   *)
(***************************************************************************)
VARIABLES
  cfg,                 \* constructor arguments (never changed by run)
  steps,               \* self.steps (sorted)
  cash,                \* self.cash
  holdings,            \* self.holdings
  lots,                \* self.lots
  step_active_flags,   \* self.step_active_flags
  trade_log,           \* self.trade_log
  daily_stats,         \* self.daily_stats
  step_stats,          \* self.step_stats
  buy_history,         \* self.buy_history
  last_buy_date,       \* self.last_buy_date
  rebalance_count,     \* self.rebalance_count
  total_rebalanced,    \* self.total_rebalanced
  bh_shares,           \* self.bh_shares
  active_defensive,    \* run(): active_defensive
  is_ma_paused,        \* run(): is_ma_paused
  day,                 \* index of the current row of self.df
  date,                \* the current row's date
  bar,                 \* the current row
  closes,              \* Close_<base> of rows 0 .. day
  peak_col,            \* Peak_<base> of the current row
  table,               \* the rows read so far, kept by a caller that builds a
                       \* second instance on the same table (<< >> otherwise)
  peak_price,          \* run(): peak_price
  drawdown_pct,        \* run(): drawdown_pct
  port_value,          \* run(): port_value
  pc,                  \* position of run()
  li,                  \* exit loop: index of the lot under evaluation
  lots_to_remove,      \* run(): lots_to_remove
  si,                  \* entry loop: index of the step under evaluation
  forced_buy_executed, \* run(): forced_buy_executed
  summary,             \* what get_summary() returned, << >> before the call
  annual,              \* what get_annual_stats() returned, << >> before the call
  first_run,           \* the reports of an earlier instance on the same table
  sim,                 \* run_simulation(): its inputs, position and result
  hist,                \* the rows of simulation_history.csv, << >> without the file
  now,                 \* the clock that stamps the history rows
  logged               \* the record of the last log_simulation_history call

vars ==
  <<cfg, steps, cash, holdings, lots, step_active_flags, trade_log,
    daily_stats, step_stats, buy_history, last_buy_date, rebalance_count,
    total_rebalanced, bh_shares, active_defensive, is_ma_paused, day, date,
    bar, closes, peak_col, table, peak_price, drawdown_pct, port_value, pc,
    li, lots_to_remove, si, forced_buy_executed, summary, annual, first_run, sim, hist,
    now,
    logged>>

\* variables of the instance that hold the portfolio and its statistics
portfolio == <<cash, holdings, lots, step_active_flags, step_stats,
               rebalance_count, total_rebalanced>>

\* variables of the throttle and of the idle timer
throttle == <<buy_history, last_buy_date>>

\* the price table cursor
cursor == <<day, date, bar, closes, peak_col, table>>

\* constructor results that run() never assigns
fixed == <<cfg, steps>>

regime == <<active_defensive, is_ma_paused>>

\* what the caller got back from the reporting methods, and what it kept
\* of an earlier instance
reports == <<summary, annual, first_run>>

\* the caller of the instance
caller == <<sim, hist, now, logged>>

\* the history file and the calls that write it
history_file == <<hist, now, logged>>

\* no call of log_simulation_history yet, no file
NoHistory ==
  /\ hist = << >>
  /\ now = 0
  /\ logged = << >>

(***************************************************************************)
(* Trade log rows.  A key the source leaves out of a row is 0 (StepIdx,    *)
(* DropPct, BuyDate, DaysHeld) or Zero (ProfitAmt, ProfitPct).  Step       *)
(* indices are 1-based here (0-based in the source).                       *)
(***************************************************************************)
Row(d, a, t, sh, p, v) ==
  [Date |-> d, Action |-> a, Ticker |-> t, Shares |-> sh, Price |-> p,
   Value |-> v, StepIdx |-> 0, DropPct |-> 0, ProfitAmt |-> Zero,
   ProfitPct |-> Zero, BuyDate |-> 0, DaysHeld |-> 0]

StepRow(d, a, t, sh, p, v, i, dp) ==
  [Row(d, a, t, sh, p, v) EXCEPT !.StepIdx = i, !.DropPct = dp]

LotRow(d, a, t, sh, p, v, i, dp, amt, pr, bd) ==
  [StepRow(d, a, t, sh, p, v, i, dp) EXCEPT
     !.ProfitAmt = amt, !.ProfitPct = pr, !.BuyDate = bd, !.DaysHeld = d - bd]

\* f"{self.base_ticker}->{buy_ticker}"
SwitchLabel(t) == CASE t = "B" -> "B->B" [] t = "X" -> "B->X" [] OTHER -> "B->Z"

\* f"SELL (Profit/{entry_type})"
SellAction(entry_type) == IF entry_type = "FORCE" THEN "SELL (Profit/FORCE)" ELSE "SELL (Profit/DROP)"

EmptyStats == [count |-> 0, profits |-> << >>, amts |-> << >>]

(***************************************************************************)
(* Backtester.__init__ and the first row of the price table                *)
(***************************************************************************)
\* the instance is driven directly, not through run_simulation()
NoCaller ==
  [pc |-> "none", kind |-> "none", rows |-> << >>, provider |-> "none",
   constructed |-> TRUE, result |-> "none"]

\* pd.Timestamp(start_date) if start_date else df.index[0]
StartDate(c, first) == IF c.start_date = << >> THEN first ELSE c.start_date[1]

\* a holding period that ends on the last row of the data
EndDateOfData(c, last) == last

\* pd.Timestamp(end_date) if end_date else df.index[-1]
EndDate(c, last) == IF c.end_date = << >> THEN last ELSE c.end_date[1]

\* the instance variables after Backtester.__init__ with arguments c on a
\* table whose first row is b
Instance(c, b) ==
  /\ cfg = c
  /\ steps = SortSteps(c.steps)
  /\ cash = RMul(R(c.initial_capital), Pct(c.cash_buffer_pct))
  /\ holdings = [t \in Tickers |-> Zero]
  /\ lots = << >>
  /\ step_active_flags = [i \in 1 .. Len(c.steps) |-> FALSE]
  /\ trade_log = << >>
  /\ daily_stats = << >>
  /\ step_stats = [i \in 1 .. Len(c.steps) |-> [DROP |-> EmptyStats, FORCE |-> EmptyStats]]
  /\ buy_history = << >>
  /\ last_buy_date = StartDate(c, 0)
  /\ rebalance_count = 0
  /\ total_rebalanced = Zero
  /\ bh_shares = Zero
  /\ active_defensive = FALSE
  /\ is_ma_paused = FALSE
  /\ day = 0
  /\ date = 0
  /\ bar = b
  /\ closes = <<ClosePrice(b, base_ticker)>>
  /\ peak_col = Max(c.hist_peak, HighPrice(b, base_ticker))
  /\ peak_price = 0
  /\ drawdown_pct = Zero
  /\ port_value = Zero
  /\ pc = "init"
  /\ li = 1
  /\ lots_to_remove = {}
  /\ si = 1
  /\ forced_buy_executed = FALSE
  /\ summary = << >>
  /\ annual = << >>

Init ==
  \E c \in Configs : \E b \in Table(c) :
    /\ sim = NoCaller
    /\ NoHistory
    /\ first_run = << >>
    /\ table = << >>
    /\ Instance(c, b)

(***************************************************************************)
(* run(): initial buy                                                      *)
(***************************************************************************)
\* self.df[ma_col] = self.df[f'Close_{self.base_ticker}'].rolling(...).mean()
\* raises KeyError when the trend filter is on and the column is missing
AfterSetup(c) == IF c.use_ma_filter /\ ~c.base_close THEN "raised" ELSE "regime"

InitialBuy ==
  /\ pc = "init"
  /\ LET p0 == ClosePrice(bar, base_ticker) IN
       IF p0 > 0
       THEN LET investable == RSub(R(cfg.initial_capital), cash)
                shares == RDiv(investable, R(p0))
                cost == RMul(shares, R(p0))
            IN  /\ holdings' = [holdings EXCEPT ![base_ticker] = shares]
                /\ trade_log' = Append(trade_log,
                     Row(date, "BUY (Init)", base_ticker, shares, R(p0), cost))
                /\ peak_price' = HighPrice(bar, base_ticker)
                /\ bh_shares' = RDiv(R(cfg.initial_capital), R(p0))
       ELSE /\ peak_price' = 1
            /\ bh_shares' = Zero
            /\ UNCHANGED <<holdings, trade_log>>
  /\ pc' = AfterSetup(cfg)
  /\ UNCHANGED <<fixed, reports, caller, cash, lots, step_active_flags, daily_stats, step_stats,
                 throttle, rebalance_count, total_rebalanced, regime, cursor,
                 drawdown_pct, port_value, li, lots_to_remove, si,
                 forced_buy_executed>>

(***************************************************************************)
(* run(): the order of the per-day operations.  PhaseAfter(p) is the       *)
(* position run() reaches when the operations of position p are finished.  *)
(***************************************************************************)
\* a day loop that evaluates the entries before the exits
PhaseAfterEntriesFirst(p) ==
  CASE p = "regime"  -> "value"
    [] p = "value"   -> "entries"
    [] p = "entries" -> "exits"
    [] p = "exits"   -> "record"
    [] OTHER         -> "next"

PhaseAfter(p) ==
  CASE p = "regime"  -> "value"
    [] p = "value"   -> "exits"
    [] p = "exits"   -> "entries"
    [] p = "entries" -> "record"
    [] OTHER         -> "next"

(***************************************************************************)
(* run(): moving average and regime check                                  *)
(***************************************************************************)
RECURSIVE SumSeq(_)
SumSeq(s) == IF s = << >> THEN 0 ELSE Head(s) + SumSeq(Tail(s))

\* rolling(window=ma_period).mean() is NaN on the first ma_period - 1 rows
MaDefined(cl, period) == Len(cl) >= period

\* ma_period * (the rolling mean of the current row)
MaSum(cl, period) == SumSeq(SubSeq(cl, Len(cl) - period + 1, Len(cl)))

\* self.use_ma_filter and ma_val > 0
MaActive == cfg.use_ma_filter /\ MaDefined(closes, cfg.ma_period)
              /\ MaSum(closes, cfg.ma_period) > 0

\* a bear test against the mean of the closes seen so far, without warm-up
BearWithoutWarmup ==
  /\ cfg.use_ma_filter
  /\ LET n == IF Len(closes) < cfg.ma_period THEN Len(closes) ELSE cfg.ma_period IN
       ClosePrice(bar, base_ticker) * n < SumSeq(SubSeq(closes, Len(closes) - n + 1, Len(closes)))

\* base_price < ma_val
Bear == MaActive /\ ClosePrice(bar, base_ticker) * cfg.ma_period < MaSum(closes, cfg.ma_period)

\* base_price > ma_val
Bull == MaActive /\ ClosePrice(bar, base_ticker) * cfg.ma_period > MaSum(closes, cfg.ma_period)

\* for t, s in self.holdings.items(): if s > 0: sell
RECURSIVE LiquidateFrom(_, _, _, _)
LiquidateFrom(ts, c, h, log) ==
  IF ts = << >> THEN [cash |-> c, holdings |-> h, log |-> log]
  ELSE LET t == Head(ts)
           s == h[t]
           p == ClosePrice(bar, t)
           val == RMul(s, R(p))
       IN  IF RGt(s, Zero)
           THEN LiquidateFrom(Tail(ts), RAdd(c, val), [h EXCEPT ![t] = Zero],
                  Append(log, Row(date, "SELL (Defensive)", t, s, R(p), val)))
           ELSE LiquidateFrom(Tail(ts), c, h, log)

LiquidateCond == Bear /\ cfg.ma_mode = "defensive" /\ ~active_defensive

PauseOnCond == Bear /\ cfg.ma_mode = "pause" /\ ~is_ma_paused

ResumeCond == Bull /\ cfg.ma_mode = "defensive" /\ active_defensive

PauseOffCond == Bull /\ cfg.ma_mode = "pause" /\ is_ma_paused

\* a liquidation that sells the holdings but keeps the lot list
LiquidateKeepLots ==
  /\ pc = "regime"
  /\ LiquidateCond
  /\ active_defensive' = TRUE
  /\ LET r == LiquidateFrom(ordered_tickers, cash, holdings, trade_log) IN
       /\ cash' = r.cash
       /\ holdings' = r.holdings
       /\ trade_log' = r.log
  /\ lots' = lots
  /\ step_active_flags' = [i \in 1 .. Len(steps) |-> FALSE]
  /\ pc' = "defrec"
  /\ UNCHANGED <<fixed, reports, caller, daily_stats, step_stats, throttle, rebalance_count,
                 total_rebalanced, bh_shares, is_ma_paused, cursor, peak_price,
                 drawdown_pct, port_value, li, lots_to_remove, si,
                 forced_buy_executed>>

Liquidate ==
  /\ pc = "regime"
  /\ LiquidateCond
  /\ active_defensive' = TRUE
  /\ LET r == LiquidateFrom(ordered_tickers, cash, holdings, trade_log) IN
       /\ cash' = r.cash
       /\ holdings' = r.holdings
       /\ trade_log' = r.log
  /\ lots' = << >>
  /\ step_active_flags' = [i \in 1 .. Len(steps) |-> FALSE]
  /\ pc' = "defrec"
  /\ UNCHANGED <<fixed, reports, caller, daily_stats, step_stats, throttle, rebalance_count,
                 total_rebalanced, bh_shares, is_ma_paused, cursor, peak_price,
                 drawdown_pct, port_value, li, lots_to_remove, si,
                 forced_buy_executed>>

\* a re-entry that invests the buffer too
ResumeInvestableAll(c, buf) == c

\* investable = self.cash * (1 - self.cash_buffer_pct/100.0)
ResumeInvestable(c, buf) == RMul(c, RSub(R(1), Pct(buf)))

Resume ==
  /\ pc = "regime"
  /\ ResumeCond
  /\ active_defensive' = FALSE
  /\ LET p_buy == ClosePrice(bar, base_ticker) IN
       IF p_buy > 0
       THEN LET investable == ResumeInvestable(cash, cfg.cash_buffer_pct)
                s_buy == RDiv(investable, R(p_buy))
                c_buy == RMul(s_buy, R(p_buy))
            IN  /\ cash' = RSub(cash, c_buy)
                /\ holdings' = [holdings EXCEPT ![base_ticker] = RAdd(@, s_buy)]
                /\ trade_log' = Append(trade_log,
                     Row(date, "BUY (Resume)", base_ticker, s_buy, R(p_buy), c_buy))
       ELSE UNCHANGED <<cash, holdings, trade_log>>
  /\ pc' = PhaseAfter("regime")
  /\ UNCHANGED <<fixed, reports, caller, lots, step_active_flags, daily_stats, step_stats,
                 throttle, rebalance_count, total_rebalanced, bh_shares,
                 is_ma_paused, cursor, peak_price, drawdown_pct, port_value, li,
                 lots_to_remove, si, forced_buy_executed>>

PauseOn ==
  /\ pc = "regime"
  /\ PauseOnCond
  /\ is_ma_paused' = TRUE
  /\ pc' = PhaseAfter("regime")
  /\ UNCHANGED <<fixed, reports, caller, portfolio, trade_log, daily_stats, throttle, bh_shares,
                 active_defensive, cursor, peak_price, drawdown_pct, port_value,
                 li, lots_to_remove, si, forced_buy_executed>>

PauseOff ==
  /\ pc = "regime"
  /\ PauseOffCond
  /\ is_ma_paused' = FALSE
  /\ pc' = PhaseAfter("regime")
  /\ UNCHANGED <<fixed, reports, caller, portfolio, trade_log, daily_stats, throttle, bh_shares,
                 active_defensive, cursor, peak_price, drawdown_pct, port_value,
                 li, lots_to_remove, si, forced_buy_executed>>

\* no branch of the regime check assigns anything
RegimeKeep ==
  /\ pc = "regime"
  /\ ~LiquidateCond /\ ~PauseOnCond /\ ~ResumeCond /\ ~PauseOffCond
  /\ pc' = IF active_defensive THEN "defrec" ELSE PhaseAfter("regime")
  /\ UNCHANGED <<fixed, reports, caller, portfolio, trade_log, daily_stats, throttle, bh_shares,
                 regime, cursor, peak_price, drawdown_pct, port_value, li,
                 lots_to_remove, si, forced_buy_executed>>

(***************************************************************************)
(* Daily records.  Kind is "defensive" for the record of the liquidated    *)
(* path, which has no per-instrument columns, and "full" otherwise.        *)
(***************************************************************************)
NoColumns == [t \in {} |-> Zero]

\* a defensive record that keeps the drawdown of the last traded day
DefensiveRecordStaleDrawdown ==
  /\ pc = "defrec"
  /\ port_value' = cash
  /\ daily_stats' = Append(daily_stats,
       [Kind |-> "defensive", Date |-> date, Price |-> ClosePrice(bar, base_ticker),
        Peak |-> peak_price, Drawdown |-> drawdown_pct, PortfolioValue |-> cash,
        BuyHoldValue |-> RMul(bh_shares, R(ClosePrice(bar, base_ticker))),
        Cash |-> cash, Hold |-> NoColumns, Val |-> NoColumns])
  /\ pc' = "next"
  /\ UNCHANGED <<fixed, reports, caller, portfolio, trade_log, throttle, bh_shares, regime,
                 cursor, peak_price, drawdown_pct, li, lots_to_remove, si,
                 forced_buy_executed>>

\* a liquidated day that writes no daily record
DefensiveRecordSkipped ==
  /\ pc = "defrec"
  /\ port_value' = cash
  /\ pc' = "next"
  /\ UNCHANGED <<fixed, reports, caller, portfolio, trade_log, daily_stats, throttle,
                 bh_shares, regime, cursor, peak_price, drawdown_pct, li,
                 lots_to_remove, si, forced_buy_executed>>

\* if active_defensive: record and continue
DefensiveRecord ==
  /\ pc = "defrec"
  /\ port_value' = cash
  /\ daily_stats' = Append(daily_stats,
       [Kind |-> "defensive", Date |-> date, Price |-> ClosePrice(bar, base_ticker),
        Peak |-> peak_price, Drawdown |-> Zero, PortfolioValue |-> cash,
        BuyHoldValue |-> RMul(bh_shares, R(ClosePrice(bar, base_ticker))),
        Cash |-> cash, Hold |-> NoColumns, Val |-> NoColumns])
  /\ pc' = "next"
  /\ UNCHANGED <<fixed, reports, caller, portfolio, trade_log, throttle, bh_shares, regime,
                 cursor, peak_price, drawdown_pct, li, lots_to_remove, si,
                 forced_buy_executed>>

(***************************************************************************)
(* run(): drawdown update and portfolio valuation                          *)
(***************************************************************************)
\* peak_price = row.get(peak_col, base_price); if peak_price <= 0: base_price
PeakOf(peak, base_price) == IF peak <= 0 THEN base_price ELSE peak

\* (peak_price - base_price) / peak_price * 100, or 0.0
DrawdownOf(peak, base_price) ==
  IF peak > 0 THEN RMul(Norm(peak - base_price, peak), R(100)) ELSE Zero

\* a valuation that leaves the holdings out
PortValueCashOnly(c, h, b) == c

\* self.cash + sum of s * prices[t] over the held tickers that have a price
RECURSIVE ValueOf(_, _, _)
ValueOf(ts, h, b) ==
  IF ts = << >> THEN Zero
  ELSE RAdd(IF InPrices(Head(ts)) THEN RMul(h[Head(ts)], R(ClosePrice(b, Head(ts)))) ELSE Zero,
            ValueOf(Tail(ts), h, b))

PortValue(c, h, b) == RAdd(c, ValueOf(ordered_tickers, h, b))

Valuation ==
  /\ pc = "value"
  /\ LET base_price == ClosePrice(bar, base_ticker)
         pk == PeakOf(peak_col, base_price)
     IN  /\ peak_price' = pk
         /\ drawdown_pct' = DrawdownOf(pk, base_price)
  /\ port_value' = PortValue(cash, holdings, bar)
  /\ lots_to_remove' = {}
  /\ li' = 1
  /\ pc' = PhaseAfter("value")
  /\ UNCHANGED <<fixed, reports, caller, portfolio, trade_log, daily_stats, throttle, bh_shares,
                 regime, cursor, si, forced_buy_executed>>

(***************************************************************************)
(* run(): exits                                                            *)
(***************************************************************************)
\* profit_target = lot['price'] * (1 + target_pct / 100.0)
ProfitTarget(price, target_pct) == RMul(R(price), RAdd(R(1), Pct(target_pct)))

\* a limit check that tests the high before the open
ExitDecisionHighFirst(mode, price, target_pct, open_p, high_p, curr_p) ==
  LET profit_target == ProfitTarget(price, target_pct)
      profit_at_close == RMul(Norm(curr_p - price, price), R(100))
  IN  IF mode = "limit"
      THEN IF RGe(R(high_p), profit_target)
           THEN [executed |-> TRUE, exec_price |-> profit_target]
           ELSE IF RGe(R(open_p), profit_target)
                THEN [executed |-> TRUE, exec_price |-> R(open_p)]
                ELSE [executed |-> FALSE, exec_price |-> Zero]
      ELSE IF RGe(profit_at_close, R(target_pct))
           THEN [executed |-> TRUE, exec_price |-> R(curr_p)]
           ELSE [executed |-> FALSE, exec_price |-> Zero]

\* The sell-mode check: whether the lot is sold and at which price.
ExitDecision(mode, price, target_pct, open_p, high_p, curr_p) ==
  LET profit_target == ProfitTarget(price, target_pct)
      profit_at_close == RMul(Norm(curr_p - price, price), R(100))
  IN  IF mode = "limit"
      THEN IF RGe(R(open_p), profit_target)
           THEN [executed |-> TRUE, exec_price |-> R(open_p)]
           ELSE IF RGe(R(high_p), profit_target)
                THEN [executed |-> TRUE, exec_price |-> profit_target]
                ELSE [executed |-> FALSE, exec_price |-> Zero]
      ELSE IF RGe(profit_at_close, R(target_pct))
           THEN [executed |-> TRUE, exec_price |-> R(curr_p)]
           ELSE [executed |-> FALSE, exec_price |-> Zero]

\* the decision for lots[i] on the current row; a lot whose close is 0 is skipped
LotDecision(i) ==
  LET lot == lots[i]
      curr_p == ClosePrice(bar, lot.ticker)
  IN  IF curr_p = 0 THEN [executed |-> FALSE, exec_price |-> Zero]
      ELSE ExitDecision(cfg.sell_mode, lot.price, steps[lot.step_idx].profit_pct,
                        OpenPrice(bar, lot.ticker), HighPrice(bar, lot.ticker), curr_p)

\* if excess_cash > target_cash * 0.1
RebalanceDue(excess_cash, target_cash) == RGt(excess_cash, RMul(target_cash, Norm(1, 10)))

\* curr_equity = self.cash + sum of s_h * prices.get(t_h, 0)
Equity(c, h, b) ==
  RAdd(c, RAdd(RMul(h["B"], R(ClosePrice(b, "B"))),
               RAdd(RMul(h["X"], R(ClosePrice(b, "X"))),
                    RMul(h["Z"], R(ClosePrice(b, "Z"))))))

\* a deployment that puts all cash into the base whatever the buffer
DeployAllCash(c, h, b, buf, rc, tr) ==
  LET p_base == ClosePrice(b, base_ticker) IN
    [cash |-> Zero,
     holdings |-> [h EXCEPT ![base_ticker] = RAdd(@, RDiv(c, R(p_base)))],
     rc |-> rc, tr |-> tr]

\* a deployment that leaves the cash where it is
DeployNothing(c, h, b, buf, rc, tr) == [cash |-> c, holdings |-> h, rc |-> rc, tr |-> tr]

\* Post-exit deployment of cash c with holdings h: dynamic rebalancing when a
\* cash buffer is configured, full reinvestment otherwise.
Deploy(c, h, b, buf, rc, tr) ==
  LET p_base == ClosePrice(b, base_ticker) IN
    IF buf > 0
    THEN LET curr_equity == Equity(c, h, b)
             target_cash == RMul(curr_equity, Pct(buf))
             excess_cash == RSub(c, target_cash)
         IN  IF RebalanceDue(excess_cash, target_cash) /\ p_base > 0
             THEN [cash |-> RSub(c, excess_cash),
                   holdings |-> [h EXCEPT ![base_ticker] = RAdd(@, RDiv(excess_cash, R(p_base)))],
                   rc |-> rc + 1, tr |-> RAdd(tr, excess_cash)]
             ELSE [cash |-> c, holdings |-> h, rc |-> rc, tr |-> tr]
    ELSE IF p_base > 0 /\ RGt(c, Zero)
         THEN LET shares_base == RDiv(c, R(p_base))
                  cost == RMul(shares_base, R(p_base))
              IN  [cash |-> RSub(c, cost),
                   holdings |-> [h EXCEPT ![base_ticker] = RAdd(@, shares_base)],
                   rc |-> rc, tr |-> tr]
         ELSE [cash |-> c, holdings |-> h, rc |-> rc, tr |-> tr]

\* the lot under evaluation is sold
ExitSell ==
  /\ pc = "exits"
  /\ li <= Len(lots)
  /\ LotDecision(li).executed
  /\ LET lot == lots[li]
         exec_price == LotDecision(li).exec_price
         step_idx == lot.step_idx
         profit == RMul(RDiv(RSub(exec_price, R(lot.price)), R(lot.price)), R(100))
         rev == RMul(lot.shares, exec_price)
         cost_basis == RMul(lot.shares, R(lot.price))
         profit_amt == RSub(rev, cost_basis)
         entry_type == lot.entry_type
         d == Deploy(RAdd(cash, rev),
                     [holdings EXCEPT ![lot.ticker] = RSub(@, lot.shares)],
                     bar, cfg.cash_buffer_pct, rebalance_count, total_rebalanced)
     IN  /\ cash' = d.cash
         /\ holdings' = d.holdings
         /\ rebalance_count' = d.rc
         /\ total_rebalanced' = d.tr
         /\ step_stats' = [step_stats EXCEPT
              ![step_idx][entry_type].profits = Append(@, profit),
              ![step_idx][entry_type].amts = Append(@, profit_amt)]
         /\ trade_log' = Append(trade_log,
              LotRow(date, SellAction(entry_type), lot.ticker, lot.shares,
                     exec_price, rev, step_idx, steps[step_idx].drop_pct,
                     profit_amt, profit, lot.buy_date))
         /\ step_active_flags' = [step_active_flags EXCEPT ![step_idx] = FALSE]
  /\ lots_to_remove' = lots_to_remove \cup {li}
  /\ li' = li + 1
  /\ UNCHANGED <<fixed, reports, caller, lots, daily_stats, throttle, bh_shares, regime, cursor,
                 peak_price, drawdown_pct, port_value, pc, si,
                 forced_buy_executed>>

\* the lot under evaluation is kept
ExitHold ==
  /\ pc = "exits"
  /\ li <= Len(lots)
  /\ ~LotDecision(li).executed
  /\ li' = li + 1
  /\ UNCHANGED <<fixed, reports, caller, portfolio, trade_log, daily_stats, throttle, bh_shares,
                 regime, cursor, peak_price, drawdown_pct, port_value, pc,
                 lots_to_remove, si, forced_buy_executed>>

\* for i in sorted(lots_to_remove, reverse=True): del self.lots[i]
RECURSIVE Without(_, _, _)
Without(s, idxs, k) ==
  IF k > Len(s) THEN << >>
  ELSE (IF k \in idxs THEN << >> ELSE <<s[k]>>) \o Without(s, idxs, k + 1)

\* a removal that drops as many lots as were sold, from the end of the list
RemoveLotsFromEnd ==
  /\ pc = "exits"
  /\ li > Len(lots)
  /\ lots' = SubSeq(lots, 1, Len(lots) - Cardinality(lots_to_remove))
  /\ pc' = PhaseAfter("exits")
  /\ UNCHANGED <<fixed, reports, caller, cash, holdings, step_active_flags, step_stats,
                 rebalance_count, total_rebalanced, trade_log, daily_stats,
                 throttle, bh_shares, regime, cursor, peak_price, drawdown_pct,
                 port_value, li, lots_to_remove, si, forced_buy_executed>>

RemoveLots ==
  /\ pc = "exits"
  /\ li > Len(lots)
  /\ lots' = Without(lots, lots_to_remove, 1)
  /\ pc' = PhaseAfter("exits")
  /\ UNCHANGED <<fixed, reports, caller, cash, holdings, step_active_flags, step_stats,
                 rebalance_count, total_rebalanced, trade_log, daily_stats,
                 throttle, bh_shares, regime, cursor, peak_price, drawdown_pct,
                 port_value, li, lots_to_remove, si, forced_buy_executed>>

(***************************************************************************)
(* check_buy_limits                                                        *)
(***************************************************************************)
CountIn(history, lo, hi) ==
  Cardinality({k \in DOMAIN history : lo <= history[k] /\ history[k] <= hi})

\* a weekly window that reaches back seven days
CheckBuyLimitsSevenBack(history, current_date, max_day, max_week) ==
  IF max_day = 0 /\ max_week = 0 THEN TRUE
  ELSE IF max_day > 0 /\ CountIn(history, current_date, current_date) >= max_day
       THEN FALSE
       ELSE IF max_week > 0 /\ CountIn(history, current_date - 7, current_date) >= max_week
            THEN FALSE
            ELSE TRUE

CheckBuyLimits(history, current_date, max_day, max_week) ==
  IF max_day = 0 /\ max_week = 0 THEN TRUE
  ELSE IF max_day > 0 /\ CountIn(history, current_date, current_date) >= max_day
       THEN FALSE
       ELSE IF max_week > 0 /\ CountIn(history, current_date - 6, current_date) >= max_week
            THEN FALSE
            ELSE TRUE

(***************************************************************************)
(* run(): entries                                                          *)
(***************************************************************************)
\* shift_val = port_value * (step['shift_pct'] / 100.0)
ShiftVal(pv, step) == RMul(pv, Pct(step.shift_pct))

\* base_val_held = self.holdings.get(self.base_ticker, 0) * base_price
BaseValHeld(h, b) == RMul(h[base_ticker], R(ClosePrice(b, base_ticker)))

\* base_val_held >= shift_val * 0.9
Funded(base_val_held, shift_val) == RGe(base_val_held, RMul(shift_val, Norm(9, 10)))

\* the first index whose flag is false, 0 when every flag is true
FirstInactive(flags) ==
  IF \E i \in DOMAIN flags : ~flags[i]
  THEN CHOOSE i \in DOMAIN flags : ~flags[i] /\ \A j \in DOMAIN flags : j < i => flags[j]
  ELSE 0

\* days_idle >= self.force_buy_days, when forced entries are enabled
ForcedDue(d, last, force_days) == force_days > 0 /\ d - last >= force_days

\* the step a forced entry is funded for on the current row, 0 when there is none
ForcedTarget ==
  IF ForcedDue(date, last_buy_date, cfg.force_buy_days)
  THEN LET i == FirstInactive(step_active_flags) IN
         IF i # 0 /\ Funded(BaseValHeld(holdings, bar), ShiftVal(port_value, steps[i]))
         THEN i ELSE 0
  ELSE 0

\* the lot opened by an entry
NewLot(t, sh, p, i, cost, d, et) ==
  [ticker |-> t, shares |-> sh, price |-> p, step_idx |-> i, cost |-> cost,
   buy_date |-> d, entry_type |-> et]

\* the position after the step at index i - 1 was evaluated
AfterStep(i) == IF i > Len(steps) THEN PhaseAfter("entries") ELSE "drops"

\* a day loop that runs the standard drop loop after a forced entry too
AfterForcedIgnored(executed) == AfterStep(1)

\* if not forced_buy_executed: the standard drop loop, else the daily record
AfterForced(executed) == IF executed THEN PhaseAfter("entries") ELSE AfterStep(1)

\* a sale that divides the shift amount by a price other than the close
SharesToSellOffPrice(shift_val, base_price) == RDiv(shift_val, R(base_price + 1))

\* shares_to_sell = shift_val / base_price
SharesToSell(shift_val, base_price) == RDiv(shift_val, R(base_price))

\* an entry that leaves the step's flag as it was
FlagsAfterEntryUnset(flags, i) == flags

\* self.step_active_flags[i] = True
FlagsAfterEntry(flags, i) == [flags EXCEPT ![i] = TRUE]

\* a paused day that evaluates the drop entries all the same
EntriesPausedIgnored ==
  /\ pc = "entries"
  /\ is_ma_paused
  /\ forced_buy_executed' = FALSE
  /\ si' = 1
  /\ pc' = AfterStep(1)
  /\ UNCHANGED <<fixed, reports, caller, portfolio, trade_log, daily_stats, throttle, bh_shares,
                 regime, cursor, peak_price, drawdown_pct, port_value, li,
                 lots_to_remove>>

\* if not is_ma_paused: ... is false
EntriesPaused ==
  /\ pc = "entries"
  /\ is_ma_paused
  /\ pc' = PhaseAfter("entries")
  /\ UNCHANGED <<fixed, reports, caller, portfolio, trade_log, daily_stats, throttle, bh_shares,
                 regime, cursor, peak_price, drawdown_pct, port_value, li,
                 lots_to_remove, si, forced_buy_executed>>

\* the idle trigger does nothing: disabled, not due, no inactive step, or unfunded
ForcedNone ==
  /\ pc = "entries"
  /\ ~is_ma_paused
  /\ ForcedTarget = 0
  /\ forced_buy_executed' = FALSE
  /\ si' = 1
  /\ pc' = AfterForced(FALSE)
  /\ UNCHANGED <<fixed, reports, caller, portfolio, trade_log, daily_stats, throttle, bh_shares,
                 regime, cursor, peak_price, drawdown_pct, port_value, li,
                 lots_to_remove>>

\* forced entry into a target that has a price
ForcedBuy ==
  /\ pc = "entries"
  /\ ~is_ma_paused
  /\ ForcedTarget # 0
  /\ LET target_step_idx == ForcedTarget
         step == steps[target_step_idx]
         base_price == ClosePrice(bar, base_ticker)
         shift_val == ShiftVal(port_value, step)
         shares_to_sell == SharesToSell(shift_val, base_price)
         buy_ticker == step.ticker
         buy_price == ClosePrice(bar, buy_ticker)
         shares_to_buy == RDiv(shift_val, R(buy_price))
         cost == RMul(shares_to_buy, R(buy_price))
         h1 == [holdings EXCEPT ![base_ticker] = RSub(@, shares_to_sell)]
     IN  /\ buy_price > 0
         /\ holdings' = [h1 EXCEPT ![buy_ticker] = RAdd(@, shares_to_buy)]
         /\ cash' = RSub(RAdd(cash, shift_val), cost)
         /\ lots' = Append(lots, NewLot(buy_ticker, shares_to_buy, buy_price,
                                        target_step_idx, cost, date, "FORCE"))
         /\ step_active_flags' = FlagsAfterEntry(step_active_flags, target_step_idx)
         /\ trade_log' = Append(trade_log,
              StepRow(date, "FORCE (Idle)", SwitchLabel(buy_ticker), shares_to_buy,
                      R(buy_price), shift_val, target_step_idx, 0))
         /\ step_stats' = [step_stats EXCEPT ![target_step_idx].FORCE.count = @ + 1]
  /\ last_buy_date' = date
  /\ buy_history' = Append(buy_history, date)
  /\ forced_buy_executed' = TRUE
  /\ si' = 1
  /\ pc' = AfterForced(TRUE)
  /\ UNCHANGED <<fixed, reports, caller, rebalance_count, total_rebalanced, daily_stats,
                 bh_shares, regime, cursor, peak_price, drawdown_pct,
                 port_value, li, lots_to_remove>>

\* forced entry into a target whose price is 0 or missing: the base shares
\* are sold and nothing is bought
ForcedSellOnly ==
  /\ pc = "entries"
  /\ ~is_ma_paused
  /\ ForcedTarget # 0
  /\ LET step == steps[ForcedTarget]
         base_price == ClosePrice(bar, base_ticker)
         shift_val == ShiftVal(port_value, step)
         shares_to_sell == SharesToSell(shift_val, base_price)
     IN  /\ ClosePrice(bar, step.ticker) <= 0
         /\ holdings' = [holdings EXCEPT ![base_ticker] = RSub(@, shares_to_sell)]
         /\ cash' = RAdd(cash, shift_val)
  /\ forced_buy_executed' = FALSE
  /\ si' = 1
  /\ pc' = AfterForced(FALSE)
  /\ UNCHANGED <<fixed, reports, caller, lots, step_active_flags, step_stats, rebalance_count,
                 total_rebalanced, trade_log, daily_stats, throttle, bh_shares,
                 regime, cursor, peak_price, drawdown_pct, port_value, li,
                 lots_to_remove>>

\* a trigger that compares the drawdown with the signed drop_pct
DropEligibleSigned(dd, step, flag) == RGe(dd, R(step.drop_pct)) /\ ~flag

\* drawdown_pct >= abs(step['drop_pct']) and not self.step_active_flags[i]
DropEligible(dd, step, flag) == RGe(dd, R(Abs(step.drop_pct))) /\ ~flag

StepEligible(i) == DropEligible(drawdown_pct, steps[i], step_active_flags[i])

\* a drop loop without the funding check
StepFundedAlways(i) == TRUE

\* base_val_held >= shift_val * 0.9 for the step at index i
StepFunded(i) == Funded(BaseValHeld(holdings, bar), ShiftVal(port_value, steps[i]))

StepAllowed == CheckBuyLimits(buy_history, date, cfg.max_buys_day, cfg.max_buys_week)

\* the step is not triggered, or its lot is still open
DropIneligible ==
  /\ pc = "drops"
  /\ si <= Len(steps)
  /\ ~StepEligible(si)
  /\ si' = si + 1
  /\ pc' = AfterStep(si + 1)
  /\ UNCHANGED <<fixed, reports, caller, portfolio, trade_log, daily_stats, throttle, bh_shares,
                 regime, cursor, peak_price, drawdown_pct, port_value, li,
                 lots_to_remove, forced_buy_executed>>

\* if base_val_held < shift_val * 0.9: continue
DropUnfunded ==
  /\ pc = "drops"
  /\ si <= Len(steps)
  /\ StepEligible(si)
  /\ ~StepFunded(si)
  /\ si' = si + 1
  /\ pc' = AfterStep(si + 1)
  /\ UNCHANGED <<fixed, reports, caller, portfolio, trade_log, daily_stats, throttle, bh_shares,
                 regime, cursor, peak_price, drawdown_pct, port_value, li,
                 lots_to_remove, forced_buy_executed>>

\* if not self.check_buy_limits(date): log SKIP (Limit) and continue
DropSkipLimit ==
  /\ pc = "drops"
  /\ si <= Len(steps)
  /\ StepEligible(si)
  /\ StepFunded(si)
  /\ ~StepAllowed
  /\ trade_log' = Append(trade_log,
       StepRow(date, "SKIP (Limit)", steps[si].ticker, Zero, Zero, Zero, si,
               steps[si].drop_pct))
  /\ si' = si + 1
  /\ pc' = AfterStep(si + 1)
  /\ UNCHANGED <<fixed, reports, caller, portfolio, daily_stats, throttle, bh_shares, regime,
                 cursor, peak_price, drawdown_pct, port_value, li,
                 lots_to_remove, forced_buy_executed>>

\* the switch from the base instrument into a target that has a price
DropSwitch ==
  /\ pc = "drops"
  /\ si <= Len(steps)
  /\ StepEligible(si)
  /\ StepFunded(si)
  /\ StepAllowed
  /\ LET step == steps[si]
         base_price == ClosePrice(bar, base_ticker)
         shift_val == ShiftVal(port_value, step)
         shares_to_sell == SharesToSell(shift_val, base_price)
         buy_ticker == step.ticker
         buy_price == ClosePrice(bar, buy_ticker)
         shares_to_buy == RDiv(shift_val, R(buy_price))
         cost == RMul(shares_to_buy, R(buy_price))
         h1 == [holdings EXCEPT ![base_ticker] = RSub(@, shares_to_sell)]
     IN  /\ buy_price > 0
         /\ step_stats' = [step_stats EXCEPT ![si].DROP.count = @ + 1]
         /\ holdings' = [h1 EXCEPT ![buy_ticker] = RAdd(@, shares_to_buy)]
         /\ cash' = RSub(RAdd(cash, shift_val), cost)
         /\ lots' = Append(lots, NewLot(buy_ticker, shares_to_buy, buy_price, si,
                                        cost, date, "DROP"))
         /\ step_active_flags' = FlagsAfterEntry(step_active_flags, si)
         /\ trade_log' = Append(trade_log,
              StepRow(date, "SWITCH", SwitchLabel(buy_ticker), shares_to_buy,
                      R(buy_price), shift_val, si, step.drop_pct))
  /\ buy_history' = Append(buy_history, date)
  /\ last_buy_date' = date
  /\ si' = si + 1
  /\ pc' = AfterStep(si + 1)
  /\ UNCHANGED <<fixed, reports, caller, rebalance_count, total_rebalanced, daily_stats,
                 bh_shares, regime, cursor, peak_price, drawdown_pct,
                 port_value, li, lots_to_remove, forced_buy_executed>>

\* the switch into a target whose price is 0 or missing: the buy is counted
\* and recorded in the buy history, the base shares are sold, nothing is bought
DropSellOnly ==
  /\ pc = "drops"
  /\ si <= Len(steps)
  /\ StepEligible(si)
  /\ StepFunded(si)
  /\ StepAllowed
  /\ LET step == steps[si]
         base_price == ClosePrice(bar, base_ticker)
         shift_val == ShiftVal(port_value, step)
         shares_to_sell == SharesToSell(shift_val, base_price)
     IN  /\ ClosePrice(bar, step.ticker) <= 0
         /\ step_stats' = [step_stats EXCEPT ![si].DROP.count = @ + 1]
         /\ holdings' = [holdings EXCEPT ![base_ticker] = RSub(@, shares_to_sell)]
         /\ cash' = RAdd(cash, shift_val)
  /\ buy_history' = Append(buy_history, date)
  /\ last_buy_date' = date
  /\ si' = si + 1
  /\ pc' = AfterStep(si + 1)
  /\ UNCHANGED <<fixed, reports, caller, lots, step_active_flags, rebalance_count,
                 total_rebalanced, trade_log, daily_stats, bh_shares, regime,
                 cursor, peak_price, drawdown_pct, port_value, li,
                 lots_to_remove, forced_buy_executed>>

(***************************************************************************)
(* run(): daily record, next row, and the rows for the lots still open     *)
(***************************************************************************)
DailyRecord ==
  /\ pc = "record"
  /\ LET base_price == ClosePrice(bar, base_ticker)
         bh_val == IF RGt(bh_shares, Zero) THEN RMul(bh_shares, R(base_price)) ELSE Zero
         cols == {ordered_tickers[k] : k \in DOMAIN ordered_tickers}
     IN  daily_stats' = Append(daily_stats,
           [Kind |-> "full", Date |-> date, Price |-> base_price,
            Peak |-> peak_price, Drawdown |-> drawdown_pct,
            PortfolioValue |-> port_value, BuyHoldValue |-> bh_val,
            Cash |-> cash,
            Hold |-> [t \in cols |-> holdings[t]],
            Val |-> [t \in cols |-> RMul(holdings[t], R(ClosePrice(bar, t)))]])
  /\ pc' = PhaseAfter("record")
  /\ UNCHANGED <<fixed, reports, caller, portfolio, trade_log, throttle, bh_shares, regime,
                 cursor, peak_price, drawdown_pct, port_value, li,
                 lots_to_remove, si, forced_buy_executed>>

\* the rows the table can continue with: any row for the first instance (the
\* table is drawn row by row, up to MaxDays rows after the first), the row
\* the table holds for a later one
NextRows ==
  IF first_run = << >>
  THEN IF day < MaxDays THEN Table(cfg) ELSE {}
  ELSE IF day + 1 < Len(table) THEN {table[day + 2]} ELSE {}

\* for date, row in self.df.iterrows(): the next row of the table.  Its Peak
\* is the provider's rolling maximum of the base High.
StartDay ==
  /\ pc = "next"
  /\ \E b \in NextRows :
       /\ bar' = b
       /\ table' = IF first_run = << >> /\ table # << >> THEN Append(table, b) ELSE table
       /\ date' = date + b.gap
       /\ closes' = Append(closes, ClosePrice(b, base_ticker))
       /\ peak_col' = Max(peak_col, HighPrice(b, base_ticker))
  /\ day' = day + 1
  /\ pc' = "regime"
  /\ UNCHANGED <<fixed, reports, caller, portfolio, trade_log, daily_stats, throttle, bh_shares,
                 regime, peak_price, drawdown_pct, port_value, li,
                 lots_to_remove, si, forced_buy_executed>>

\* for lot in self.lots: append a HOLDING row when the final close is positive
RECURSIVE HoldingRows(_, _, _)
HoldingRows(ls, b, d) ==
  IF ls = << >> THEN << >>
  ELSE LET lot == Head(ls)
           curr_p == ClosePrice(b, lot.ticker)
           val == RMul(lot.shares, R(curr_p))
           profit_unrealized == RMul(Norm(curr_p - lot.price, lot.price), R(100))
       IN  (IF curr_p > 0
            THEN <<LotRow(d, "HOLDING", lot.ticker, lot.shares, R(curr_p), val,
                          lot.step_idx, steps[lot.step_idx].drop_pct,
                          RSub(val, lot.cost), profit_unrealized, lot.buy_date)>>
            ELSE << >>) \o HoldingRows(Tail(ls), b, d)

\* an end of run that reports no open position
FinalizeWithoutRows ==
  /\ pc = "next"
  /\ trade_log' = trade_log
  /\ pc' = "done"
  /\ UNCHANGED <<fixed, reports, caller, portfolio, daily_stats, throttle, bh_shares, regime,
                 cursor, peak_price, drawdown_pct, port_value, li,
                 lots_to_remove, si, forced_buy_executed>>

\* the table has no further row
Finalize ==
  /\ pc = "next"
  /\ first_run = << >> \/ day + 1 = Len(table)
  /\ trade_log' = trade_log \o HoldingRows(lots, bar, date)
  /\ pc' = "done"
  /\ UNCHANGED <<fixed, reports, caller, portfolio, daily_stats, throttle, bh_shares, regime,
                 cursor, peak_price, drawdown_pct, port_value, li,
                 lots_to_remove, si, forced_buy_executed>>

(***************************************************************************)
(* get_summary(), called on the instance after run() has returned          *)
(***************************************************************************)
\* t['Action'] not in ['SKIP (Limit)', 'HOLDING']
CountedTrade(t) == t.Action \notin {"SKIP (Limit)", "HOLDING"}

\* a count that takes every row of the trade log
TradeCountAllRows(log) == Len(log)

\* len([t for t in self.trade_log if t['Action'] not in [...]])
TradeCount(log) == Len(SelectSeq(log, CountedTrade))

\* self.rebalance_count if self.cash_buffer_pct > 0 else 0
RebalanceCountOf(buf, n) == IF buf > 0 THEN n ELSE 0

\* days = (end_ts - start_ts).days + 1
HoldingDays(start_ts, end_ts) == end_ts - start_ts + 1

\* cagr = (final_val / self.initial_capital) ** (1 / years) - 1 with
\* years = days / 365.25, kept as the base and the exponent of the power;
\* cagr_pct = 0.0 when years <= 0, which is the power 1 ** 0
Cagr(final_val, initial, days) ==
  IF days > 0
  THEN [base |-> RDiv(final_val, R(initial)), exponent |-> RDiv(<<1461, 4>>, R(days))]
  ELSE [base |-> R(1), exponent |-> Zero]

GetSummary ==
  /\ pc = "done"
  /\ summary = << >>
  /\ LET final_val == daily_stats[Len(daily_stats)].PortfolioValue
         days == HoldingDays(StartDate(cfg, 0), EndDate(cfg, date))
     IN  summary' = <<[Final_Value |-> final_val,
                       CAGR |-> Cagr(final_val, cfg.initial_capital, days),
                       Trade_Count |-> TradeCount(trade_log),
                       Rebalance_Count |-> RebalanceCountOf(cfg.cash_buffer_pct,
                                                            rebalance_count)]>>
  /\ UNCHANGED <<fixed, caller, annual, first_run, portfolio, trade_log, daily_stats,
                 throttle, bh_shares, regime, cursor, peak_price, drawdown_pct,
                 port_value, pc, li, lots_to_remove, si, forced_buy_executed>>

(***************************************************************************)
(* get_annual_stats(), called after get_summary() as run_simulation does   *)
(***************************************************************************)
\* days of a calendar year: the calendar is scaled so that a table of a few
\* rows spans several years
YearLen == 4

\* pd.Timestamp(d).year
YearOf(d) == d \div YearLen

\* a per-year count that takes every row of the year
YearTradesAllRows(log, y) ==
  Cardinality({r \in DOMAIN log : YearOf(log[r].Date) = y})

\* y_trades: the rows of year y that are neither SKIP (Limit) nor HOLDING
YearTrades(log, y) ==
  Cardinality({r \in DOMAIN log : YearOf(log[r].Date) = y /\ CountedTrade(log[r])})

\* the columns of the result: one per year of the daily records with its
\* trade count, and the Total column with total_trades (the expression of
\* get_summary's Trade Count)
GetAnnualStats ==
  /\ pc = "done"
  /\ summary # << >>
  /\ annual = << >>
  /\ daily_stats # << >>
  /\ LET years == {YearOf(daily_stats[k].Date) : k \in DOMAIN daily_stats} IN
       annual' = <<[years |-> years,
                    trades |-> [y \in years |-> YearTrades(trade_log, y)],
                    total |-> TradeCount(trade_log)]>>
  /\ UNCHANGED <<fixed, caller, summary, first_run, portfolio, trade_log, daily_stats,
                 throttle, bh_shares, regime, cursor, peak_price, drawdown_pct,
                 port_value, pc, li, lots_to_remove, si, forced_buy_executed>>

(***************************************************************************)
(* A second instance on the same table                                     *)
(***************************************************************************)
\* a second instance whose buy history is the first one's
SecondInstanceSharedHistory ==
  /\ pc = "done"
  /\ summary # << >>
  /\ table # << >>
  /\ first_run = << >>
  /\ first_run' = <<[trade_log |-> trade_log, daily_stats |-> daily_stats]>>
  /\ cash' = RMul(R(cfg.initial_capital), Pct(cfg.cash_buffer_pct))
  /\ holdings' = [t \in Tickers |-> Zero]
  /\ lots' = << >>
  /\ step_active_flags' = [i \in 1 .. Len(cfg.steps) |-> FALSE]
  /\ trade_log' = << >>
  /\ daily_stats' = << >>
  /\ step_stats' = [i \in 1 .. Len(cfg.steps) |-> [DROP |-> EmptyStats, FORCE |-> EmptyStats]]
  /\ buy_history' = buy_history
  /\ last_buy_date' = StartDate(cfg, 0)
  /\ rebalance_count' = 0
  /\ total_rebalanced' = Zero
  /\ bh_shares' = Zero
  /\ active_defensive' = FALSE
  /\ is_ma_paused' = FALSE
  /\ day' = 0
  /\ date' = 0
  /\ bar' = table[1]
  /\ closes' = <<ClosePrice(table[1], base_ticker)>>
  /\ peak_col' = Max(cfg.hist_peak, HighPrice(table[1], base_ticker))
  /\ peak_price' = 0
  /\ drawdown_pct' = Zero
  /\ port_value' = Zero
  /\ pc' = "init"
  /\ li' = 1
  /\ lots_to_remove' = {}
  /\ si' = 1
  /\ forced_buy_executed' = FALSE
  /\ summary' = << >>
  /\ annual' = << >>
  /\ UNCHANGED <<fixed, caller, table>>

\* Backtester(df, ...) once more with the same arguments, after the first
\* instance has run and reported: every attribute is assigned anew by
\* __init__ (self.df is a copy of the caller's table); the caller keeps the
\* first instance's trade log and daily records
SecondInstance ==
  /\ pc = "done"
  /\ summary # << >>
  /\ table # << >>
  /\ first_run = << >>
  /\ first_run' = <<[trade_log |-> trade_log, daily_stats |-> daily_stats]>>
  /\ cash' = RMul(R(cfg.initial_capital), Pct(cfg.cash_buffer_pct))
  /\ holdings' = [t \in Tickers |-> Zero]
  /\ lots' = << >>
  /\ step_active_flags' = [i \in 1 .. Len(cfg.steps) |-> FALSE]
  /\ trade_log' = << >>
  /\ daily_stats' = << >>
  /\ step_stats' = [i \in 1 .. Len(cfg.steps) |-> [DROP |-> EmptyStats, FORCE |-> EmptyStats]]
  /\ buy_history' = << >>
  /\ last_buy_date' = StartDate(cfg, 0)
  /\ rebalance_count' = 0
  /\ total_rebalanced' = Zero
  /\ bh_shares' = Zero
  /\ active_defensive' = FALSE
  /\ is_ma_paused' = FALSE
  /\ day' = 0
  /\ date' = 0
  /\ bar' = table[1]
  /\ closes' = <<ClosePrice(table[1], base_ticker)>>
  /\ peak_col' = Max(cfg.hist_peak, HighPrice(table[1], base_ticker))
  /\ peak_price' = 0
  /\ drawdown_pct' = Zero
  /\ port_value' = Zero
  /\ pc' = "init"
  /\ li' = 1
  /\ lots_to_remove' = {}
  /\ si' = 1
  /\ forced_buy_executed' = FALSE
  /\ summary' = << >>
  /\ annual' = << >>
  /\ UNCHANGED <<fixed, caller, table>>

Next ==
  \/ InitialBuy
  \/ Liquidate
  \/ Resume
  \/ PauseOn
  \/ PauseOff
  \/ RegimeKeep
  \/ DefensiveRecord
  \/ Valuation
  \/ ExitSell
  \/ ExitHold
  \/ RemoveLots
  \/ EntriesPaused
  \/ ForcedNone
  \/ ForcedBuy
  \/ ForcedSellOnly
  \/ DropIneligible
  \/ DropUnfunded
  \/ DropSkipLimit
  \/ DropSwitch
  \/ DropSellOnly
  \/ DailyRecord
  \/ StartDay
  \/ Finalize
  \/ GetSummary
  \/ GetAnnualStats

Spec == Init /\ [][Next]_vars

\* The configurations a second instance is built for: between them they take
\* every path of run() (throttled, forced and sell-only entries, exits with
\* and without a cash buffer, liquidation and re-entry, paused entries).
TwinConfigs ==
  { Cfg("limit", 0,  FALSE, "defensive", 2, 0, 1, 0, StepsTwoX,    10),
    Cfg("limit", 0,  FALSE, "defensive", 2, 1, 0, 2, StepsMissing, 10),
    Cfg("limit", 10, TRUE,  "defensive", 2, 0, 0, 0, StepsTwoX,    10),
    Cfg("close", 0,  TRUE,  "pause",     2, 0, 0, 2, StepsOneX,    10) }

\* The caller keeps the table and the first instance's reports, and builds a
\* second instance from the same arguments.
TwinInit ==
  \E c \in TwinConfigs : \E b \in Table(c) :
    /\ sim = NoCaller
    /\ NoHistory
    /\ first_run = << >>
    /\ table = <<b>>
    /\ Instance(c, b)

TwinNext ==
  \/ Next
  \/ SecondInstance

TwinSpec == TwinInit /\ [][TwinNext]_vars

(***************************************************************************)
(* run_simulation(config, steps_input)                                     *)
(*                                                                         *)
(* steps_input is a list of dicts, a DataFrame, or something else.  A row  *)
(* is "ok" (numeric values, every key), "text" (drop_pct is a non-numeric  *)
(* string), "noticker" (a dict without the key 'ticker') or "none" (a      *)
(* DataFrame cell holding None).  The provider's table is "empty",         *)
(* "nohigh" (no High column of the base), "early" (no row on or after the  *)
(* start date) or "ok".  The run of the constructed instance is the        *)
(* behaviour of Spec and is taken here as one step.                        *)
(***************************************************************************)
MaxRows == 2

ListRowKinds == {"ok", "text", "noticker"}

FrameRowKinds == {"ok", "text", "none"}

Providers == {"empty", "nohigh", "early", "ok"}

RowSeqs(kinds) == UNION {[1 .. n -> kinds] : n \in 0 .. MaxRows}

SimInputs ==
  [kind : {"list"}, rows : RowSeqs(ListRowKinds), provider : Providers]
    \cup [kind : {"frame"}, rows : RowSeqs(FrameRowKinds), provider : Providers]
    \cup [kind : {"other"}, rows : {<< >>}, provider : Providers]

\* the variables of the Backtester instance
instance ==
  <<fixed, reports, portfolio, trade_log, daily_stats, throttle, bh_shares,
    regime, cursor, peak_price, drawdown_pct, port_value, pc, li,
    lots_to_remove, si, forced_buy_executed>>

\* run_simulation is entered; no instance exists yet (the instance variables
\* hold the values of a fresh one and are not used before step 5)
SimInit ==
  /\ \E in \in SimInputs :
       sim = [pc |-> "parse", kind |-> in.kind, rows |-> in.rows,
              provider |-> in.provider, constructed |-> FALSE, result |-> "none"]
  /\ NoHistory
  /\ first_run = << >>
  /\ table = << >>
  /\ Instance(Cfg("limit", 0, FALSE, "defensive", 2, 0, 0, 0, StepsEmpty, 10),
              [gap |-> 1, bc |-> 10, xo |-> 4, xh |-> 4, xc |-> 4])

\* for s in steps_input: s_copy['ticker'] = resolve_ticker(str(s['ticker']))
RECURSIVE ParseList(_)
ParseList(rows) ==
  IF rows = << >> THEN "ok"
  ELSE IF Head(rows) = "noticker" THEN "KeyError"
  ELSE ParseList(Tail(rows))

\* for index, row in steps_df.iterrows(): float(row[...]) under
\* `except ValueError: return None, None, None, None`
RECURSIVE ParseFrame(_)
ParseFrame(rows) ==
  IF rows = << >> THEN "ok"
  ELSE IF Head(rows) = "text" THEN "None4"
  ELSE IF Head(rows) = "none" THEN "TypeError"
  ELSE ParseFrame(Tail(rows))

\* the outcome of step 3
ParseSteps(kind, rows) ==
  CASE kind = "list"  -> ParseList(rows)
    [] kind = "frame" -> ParseFrame(rows)
    [] OTHER          -> "None4"

\* return None, None, None, None
ReturnNone(sm) == [sm EXCEPT !.pc = "returned", !.result = "None4"]

\* an exception leaves run_simulation
Raise(sm, e) == [sm EXCEPT !.pc = "raised", !.result = e]

SimParseSteps ==
  /\ sim.pc = "parse"
  /\ LET o == ParseSteps(sim.kind, sim.rows) IN
       sim' = CASE o = "ok"    -> [sim EXCEPT !.pc = "fetch"]
                [] o = "None4" -> ReturnNone(sim)
                [] OTHER       -> Raise(sim, o)
  /\ UNCHANGED <<instance, history_file>>

\* step 4: fetch, Peak column, slice to the start date
SimFetchData ==
  /\ sim.pc = "fetch"
  /\ sim' = IF sim.provider = "ok" THEN [sim EXCEPT !.pc = "run"] ELSE ReturnNone(sim)
  /\ UNCHANGED <<instance, history_file>>

\* sorted(steps, key=lambda x: abs(x['drop_pct'])) in Backtester.__init__
\* raises TypeError on a string
ConstructorRaises(kind, rows) ==
  kind = "list" /\ \E k \in DOMAIN rows : rows[k] = "text"

\* step 5: construct the instance, run it, collect the reports
SimRunBacktest ==
  /\ sim.pc = "run"
  /\ sim' = IF ConstructorRaises(sim.kind, sim.rows)
            THEN Raise(sim, "TypeError")
            ELSE [sim EXCEPT !.pc = "returned", !.constructed = TRUE, !.result = "four"]
  /\ UNCHANGED <<instance, history_file>>

SimNext ==
  \/ SimParseSteps
  \/ SimFetchData
  \/ SimRunBacktest

SimSpec == SimInit /\ [][SimNext]_vars

(***************************************************************************)
(* log_simulation_history(params, results_summary)                         *)
(*                                                                         *)
(* The history file is a CSV: a cell is the text of an integer ("30"), the *)
(* text of a float ("30.0", "30.5"), another string, or empty.  Numbers    *)
(* are kept in tenths.  A record has the columns Timestamp, CashBuffer (a  *)
(* number or None) and SellMode (a string).                                *)
(***************************************************************************)
MaxCalls == 3

IntCell(n) == [k |-> "int", n |-> n, s |-> ""]

FloatCell(n) == [k |-> "float", n |-> n, s |-> ""]

StrCell(t) == [k |-> "str", n |-> 0, s |-> t]

EmptyCell == [k |-> "empty", n |-> 0, s |-> ""]

\* a Python None in a record
NoneVal == [k |-> "none", n |-> 0, s |-> ""]

\* NaN in a loaded column
NaNVal == [k |-> "nan", n |-> 0, s |-> ""]

\* cols_to_check = [c for c in df_new.columns if c != "Timestamp"]
ColsToCheck == {"CashBuffer", "SellMode"}

\* the records log_simulation_history is called with: 30, 30.0, 30.5 or None
\* as the cash buffer
Records ==
  [CashBuffer : {IntCell(300), FloatCell(300), FloatCell(305), NoneVal},
   SellMode : {StrCell("limit"), StrCell("close")}]

\* pd.read_csv: the dtype inferred for a column from its cells
Dtype(h, c) ==
  IF \A i \in DOMAIN h : h[i][c].k = "int" THEN "int64"
  ELSE IF \A i \in DOMAIN h : h[i][c].k \in {"int", "float", "empty"} THEN "float64"
  ELSE "object"

\* pd.read_csv: the value a cell is loaded as in a column of that dtype
Loaded(cell, dtype) ==
  IF cell.k = "empty" THEN NaNVal
  ELSE IF dtype = "float64" THEN FloatCell(cell.n)
  ELSE cell

\* hist_col.astype(str) of a loaded value and str(val) of the record's value
StrOf(v) ==
  CASE v.k = "nan" -> StrCell("nan")
    [] v.k = "none" -> StrCell("None")
    [] OTHER -> v

\* isinstance(val, (int, float)) for val = df_new[col].iloc[0]: numpy.float64
\* is a float, numpy.int64 is not an int
IsIntOrFloat(val) == val.k = "float"

\* one column's contribution to `candidates` for one row of the history
CellMatches(dtype, v, val) ==
  IF dtype \in {"int64", "float64"} /\ IsIntOrFloat(val)
  THEN v.k # "nan" /\ v.n = val.n
  ELSE StrOf(v) = StrOf(val)

\* candidates.any() after all columns were compared
IsDuplicate(h, r) ==
  \E i \in DOMAIN h : \A c \in ColsToCheck :
    CellMatches(Dtype(h, c), Loaded(h[i][c], Dtype(h, c)), r[c])

\* the dtype of a column of pd.concat([df_hist, df_new])
ConcatDtype(dtype, val) ==
  IF dtype = "int64" /\ val.k = "int" THEN "int64"
  ELSE IF dtype \in {"int64", "float64"} /\ val.k \in {"int", "float"} THEN "float64"
  ELSE "object"

\* to_csv: the text written for a value in a column of that dtype
Written(v, dtype) ==
  IF v.k \in {"nan", "none"} THEN EmptyCell
  ELSE IF dtype = "float64" THEN FloatCell(v.n)
  ELSE v

\* the row written for the new record
NewRow(r, t, dtypes) ==
  [c \in ColsToCheck \cup {"Timestamp"} |->
     IF c = "Timestamp" THEN StrCell(t) ELSE Written(r[c], dtypes[c])]

\* the rows of the file after the call
LogResult(h, r, t) ==
  IF h = << >>
  THEN <<NewRow(r, t, [c \in ColsToCheck |-> "object"])>>
  ELSE IF IsDuplicate(h, r) THEN h
  ELSE LET dtypes == [c \in ColsToCheck |-> ConcatDtype(Dtype(h, c), r[c])] IN
         [i \in 1 .. Len(h) |->
            [c \in ColsToCheck \cup {"Timestamp"} |->
               IF c = "Timestamp" THEN h[i][c]
               ELSE Written(Loaded(h[i][c], Dtype(h, c)), dtypes[c])]]
           \o <<NewRow(r, t, dtypes)>>

LogSimulationHistory ==
  /\ now < MaxCalls
  /\ \E r \in Records :
       /\ logged' = <<r>>
       /\ hist' = LogResult(hist, r, now)
  /\ now' = now + 1
  /\ UNCHANGED <<instance, sim>>

\* no history file, no run: the instance variables hold the values of a
\* fresh instance and are not used
HistInit ==
  /\ sim = NoCaller
  /\ NoHistory
  /\ first_run = << >>
  /\ table = << >>
  /\ Instance(Cfg("limit", 0, FALSE, "defensive", 2, 0, 0, 0, StepsEmpty, 10),
              [gap |-> 1, bc |-> 10, xo |-> 4, xh |-> 4, xc |-> 4])

HistNext == LogSimulationHistory

HistSpec == HistInit /\ [][HistNext]_vars

(***************************************************************************)
(* run() in binary floating point                                          *)
(*                                                                         *)
(* The amounts of run() are Python floats.  FloatSpec computes the first   *)
(* row's operations, up to the end of the drop loop, as the interpreter    *)
(* does: every arithmetic result is rounded to the nearest number with a   *)
(* significand of Prec bits (ties to even), with Prec in place of the 53   *)
(* bits of a double.                                                       *)
(***************************************************************************)
Prec == 5

\* 2^e as a rational
Pow2(e) == IF e >= 0 THEN R(2 ^ e) ELSE Norm(1, 2 ^ (-e))

\* the exponent e of a > 0: 2^(Prec-1) <= a / 2^e < 2^Prec
RECURSIVE ExponentOf(_, _)
ExponentOf(a, e) ==
  IF RGe(a, Pow2(e + Prec)) THEN ExponentOf(a, e + 1)
  ELSE IF RLt(a, Pow2(e + Prec - 1)) THEN ExponentOf(a, e - 1)
  ELSE e

\* n / d rounded to the nearest integer, ties to even
RoundHalfEven(n, d) ==
  IF 2 * (n % d) > d \/ (2 * (n % d) = d /\ (n \div d) % 2 = 1)
  THEN (n \div d) + 1 ELSE n \div d

\* the float nearest to the rational q >= 0 whose exponent is e
FlAt(q, e) == RMul(R(RoundHalfEven(RDiv(q, Pow2(e))[1], RDiv(q, Pow2(e))[2])), Pow2(e))

\* the float nearest to the rational q
Fl(q) ==
  IF q[1] = 0 THEN Zero
  ELSE IF q[1] < 0 THEN RNeg(FlAt(RNeg(q), ExponentOf(RNeg(q), 0)))
  ELSE FlAt(q, ExponentOf(q, 0))

\* lines 86-121 in floating point
InitialBuyFloat ==
  /\ pc = "init"
  /\ LET p0 == ClosePrice(bar, base_ticker) IN
       IF p0 > 0
       THEN LET investable == Fl(RSub(R(cfg.initial_capital), cash))
                shares == Fl(RDiv(investable, R(p0)))
                cost == Fl(RMul(shares, R(p0)))
            IN  /\ holdings' = [holdings EXCEPT ![base_ticker] = shares]
                /\ trade_log' = Append(trade_log,
                     Row(date, "BUY (Init)", base_ticker, shares, R(p0), cost))
                /\ peak_price' = HighPrice(bar, base_ticker)
                /\ bh_shares' = Fl(RDiv(R(cfg.initial_capital), R(p0)))
       ELSE /\ peak_price' = 1
            /\ bh_shares' = Zero
            /\ UNCHANGED <<holdings, trade_log>>
  /\ pc' = AfterSetup(cfg)
  /\ UNCHANGED <<fixed, reports, caller, cash, lots, step_active_flags, daily_stats, step_stats,
                 throttle, rebalance_count, total_rebalanced, regime, cursor,
                 drawdown_pct, port_value, li, lots_to_remove, si,
                 forced_buy_executed>>

\* port_value = self.cash; for t, s in holdings: port_value += s * prices[t]
RECURSIVE PortValueFloat(_, _, _, _)
PortValueFloat(acc, ts, h, b) ==
  IF ts = << >> THEN acc
  ELSE PortValueFloat(
         IF InPrices(Head(ts))
         THEN Fl(RAdd(acc, Fl(RMul(h[Head(ts)], R(ClosePrice(b, Head(ts)))))))
         ELSE acc,
         Tail(ts), h, b)

\* lines 226-241 in floating point; the drawdowns of the rows used here,
\* (10 - bc) / 10 * 100 with bc in 5 .. 8, are whole numbers in floating
\* point too
ValuationFloat ==
  /\ pc = "value"
  /\ LET base_price == ClosePrice(bar, base_ticker)
         pk == PeakOf(peak_col, base_price)
     IN  /\ peak_price' = pk
         /\ drawdown_pct' = DrawdownOf(pk, base_price)
  /\ port_value' = PortValueFloat(cash, ordered_tickers, holdings, bar)
  /\ lots_to_remove' = {}
  /\ li' = 1
  /\ pc' = PhaseAfter("value")
  /\ UNCHANGED <<fixed, reports, caller, portfolio, trade_log, daily_stats, throttle, bh_shares,
                 regime, cursor, si, forced_buy_executed>>

\* lines 427-493 in floating point, for a target that has a price
DropSwitchFloat ==
  /\ pc = "drops"
  /\ si <= Len(steps)
  /\ StepEligible(si)
  /\ StepAllowed
  /\ LET step == steps[si]
         base_price == ClosePrice(bar, base_ticker)
         shift_val == Fl(RMul(port_value, Fl(Pct(step.shift_pct))))
         base_val_held == Fl(RMul(holdings[base_ticker], R(base_price)))
         shares_to_sell == Fl(RDiv(shift_val, R(base_price)))
         buy_ticker == step.ticker
         buy_price == ClosePrice(bar, buy_ticker)
         shares_to_buy == Fl(RDiv(shift_val, R(buy_price)))
         cost == Fl(RMul(shares_to_buy, R(buy_price)))
         h1 == [holdings EXCEPT ![base_ticker] = Fl(RSub(@, shares_to_sell))]
     IN  /\ RGe(base_val_held, Fl(RMul(shift_val, Fl(Norm(9, 10)))))
         /\ buy_price > 0
         /\ step_stats' = [step_stats EXCEPT ![si].DROP.count = @ + 1]
         /\ holdings' = [h1 EXCEPT ![buy_ticker] = Fl(RAdd(@, shares_to_buy))]
         /\ cash' = Fl(RSub(Fl(RAdd(cash, shift_val)), cost))
         /\ lots' = Append(lots, NewLot(buy_ticker, shares_to_buy, buy_price, si,
                                        cost, date, "DROP"))
         /\ step_active_flags' = FlagsAfterEntry(step_active_flags, si)
         /\ trade_log' = Append(trade_log,
              StepRow(date, "SWITCH", SwitchLabel(buy_ticker), shares_to_buy,
                      R(buy_price), shift_val, si, step.drop_pct))
  /\ buy_history' = Append(buy_history, date)
  /\ last_buy_date' = date
  /\ si' = si + 1
  /\ pc' = AfterStep(si + 1)
  /\ UNCHANGED <<fixed, reports, caller, rebalance_count, total_rebalanced, daily_stats,
                 bh_shares, regime, cursor, peak_price, drawdown_pct,
                 port_value, li, lots_to_remove, forced_buy_executed>>

\* a fresh instance without cash buffer, with one step of 50% or of 100%,
\* on a first row with the base 20% to 50% below the peak 10
FloatInit ==
  \E st \in {StepsOneX, StepsFull} : \E bc \in 5 .. 8 : \E xc \in 1 .. 15 :
    /\ sim = NoCaller
    /\ NoHistory
    /\ first_run = << >>
    /\ table = << >>
    /\ Instance(Cfg("limit", 0, FALSE, "defensive", 2, 0, 0, 0, st, 10),
                [gap |-> 1, bc |-> bc, xo |-> xc, xh |-> xc, xc |-> xc])

FloatNext ==
  \/ InitialBuyFloat
  \/ RegimeKeep
  \/ ValuationFloat
  \/ RemoveLots
  \/ ForcedNone
  \/ DropSwitchFloat

FloatSpec == FloatInit /\ [][FloatNext]_vars

(***************************************************************************)
(* Properties                                                              *)
(***************************************************************************)
TypeOK == pc \in {"init", "regime", "defrec", "value", "exits", "entries",
                  "drops", "record", "next", "done", "raised"}

\* the lots that are open: during the exit loop the lots already sold are
\* still in self.lots, waiting for their removal
OpenLotIdx ==
  IF pc = "exits" THEN DOMAIN lots \ lots_to_remove ELSE DOMAIN lots

RECURSIVE SumShares(_, _)
SumShares(idx, t) ==
  IF idx = {} THEN Zero
  ELSE LET k == CHOOSE k \in idx : TRUE
       IN  RAdd(IF lots[k].ticker = t THEN lots[k].shares ELSE Zero,
                SumShares(idx \ {k}, t))

\* rows of the trade log dated d with one of the given actions
RowsOn(log, d, actions) ==
  {k \in DOMAIN log : log[k].Date = d /\ log[k].Action \in actions}

ProfitActions == {"SELL (Profit/DROP)", "SELL (Profit/FORCE)"}

\* C1: in every reachable state of run() every instrument's held-share
\* count is >= 0 (no FORCE or SWITCH entry sells more base shares than held).
C1_HoldingsNonNegative == \A t \in Tickers : RGe(holdings[t], Zero)

SoldNow == pc = "exits" /\ Len(trade_log') = Len(trade_log) + 1

C3_OneLotPerStep ==
  pc = "next" =>
    \A i \in DOMAIN steps :
      Cardinality({k \in DOMAIN lots : lots[k].step_idx = i}) <= 1

\* C3 witness: a day ends with an open lot of a step that was entered,
\* exited and entered again
C3_Witness ==
  /\ pc = "next"
  /\ \E k \in DOMAIN lots :
       \E r \in DOMAIN trade_log :
         /\ trade_log[r].Action \in ProfitActions
         /\ trade_log[r].StepIdx = lots[k].step_idx

\* C4: for each instrument the share quantities of the open lots on it sum
\* to at most the instrument's holding.
C4_LotsWithinHolding ==
  \A t \in Tickers : RLe(SumShares(OpenLotIdx, t), holdings[t])

\* the position of an action kind within a day
Rank(a) ==
  CASE a = "BUY (Init)" -> 0
    [] a \in {"SELL (Defensive)", "BUY (Resume)"} -> 1
    [] a \in ProfitActions -> 2
    [] a \in {"FORCE (Idle)", "SWITCH", "SKIP (Limit)"} -> 3
    [] OTHER -> 4

\* the position of a program position within a day
PhaseRank(p) ==
  CASE p = "init" -> 0
    [] p = "regime" -> 1
    [] p \in {"defrec", "value"} -> 2
    [] p = "exits" -> 3
    [] p \in {"entries", "drops"} -> 4
    [] p = "record" -> 5
    [] p = "next" -> 6
    [] OTHER -> 7

\* C5: within a day the operations run in the order regime check,
\* valuation, exits, entries, daily record: in the trade log a day's
\* SELL (Defensive) / BUY (Resume) rows precede its SELL (Profit/...) rows,
\* which precede its FORCE (Idle) / SWITCH / SKIP (Limit) rows, and run()
\* never returns to an earlier operation of the same day.
C5_DayOrder ==
  /\ [](\A i, j \in DOMAIN trade_log :
          (i < j /\ trade_log[i].Date = trade_log[j].Date)
            => Rank(trade_log[i].Action) <= Rank(trade_log[j].Action))
  /\ [][day' = day => PhaseRank(pc') >= PhaseRank(pc)]_vars

\* C5 witness: a day that ended with a profit exit followed by an entry
C5_Witness ==
  /\ pc = "next"
  /\ \E i, j \in DOMAIN trade_log :
       /\ i < j
       /\ trade_log[i].Date = date /\ trade_log[j].Date = date
       /\ trade_log[i].Action \in ProfitActions
       /\ trade_log[j].Action \in {"SWITCH", "FORCE (Idle)"}

\* this step appended exactly one row, with the given action
Logged(action) ==
  /\ Len(trade_log') = Len(trade_log) + 1
  /\ trade_log'[Len(trade_log')].Action = action

\* C6: a SWITCH for step i happens only when the day's drawdown is at least
\* |drop_pct of step i| and step i's flag is false and no lot of step i is
\* open; the steps are sorted by |drop_pct| and evaluated in ascending order.
C6_DropEntryGuard ==
  /\ [](\A i \in DOMAIN steps : \A j \in DOMAIN steps :
          i < j => Abs(steps[i].drop_pct) <= Abs(steps[j].drop_pct))
  /\ [][/\ Logged("SWITCH")
           => LET i == trade_log'[Len(trade_log')].StepIdx
                  base_price == ClosePrice(bar, base_ticker)
              IN  /\ i = si
                  /\ peak_price > 0
                  /\ 100 * (peak_price - base_price) >= Abs(steps[i].drop_pct) * peak_price
                  /\ ~step_active_flags[i]
                  /\ \A k \in DOMAIN lots : lots[k].step_idx # i
        /\ (pc = "drops" /\ si' # si) => si' = si + 1
       ]_vars

\* C6 witness: a step whose lot was opened on an earlier day is still open
\* at the daily record of a day whose drawdown is deeper than its trigger
C6_Witness ==
  /\ pc = "record"
  /\ \E k \in DOMAIN lots :
       /\ lots[k].buy_date < date
       /\ lots[k].entry_type = "DROP"
       /\ step_active_flags[lots[k].step_idx]
       /\ RGt(drawdown_pct, R(Abs(steps[lots[k].step_idx].drop_pct)))

\* C7: with max_buys_day = N > 0 no date has more than N buy timestamps;
\* with N = 1 (no weekly limit) a date on which a second candidate entry
\* reached the throttle has exactly one SWITCH row and one SKIP (Limit) row.
C7_DailyThrottle ==
  /\ cfg.max_buys_day > 0
       => \A k \in DOMAIN buy_history :
            CountIn(buy_history, buy_history[k], buy_history[k]) <= cfg.max_buys_day
  /\ (cfg.max_buys_day = 1 /\ cfg.max_buys_week = 0 /\ pc = "record"
        /\ RowsOn(trade_log, date, {"SKIP (Limit)"}) # {})
       => /\ Cardinality(RowsOn(trade_log, date, {"SWITCH"})) = 1
          /\ Cardinality(RowsOn(trade_log, date, {"SKIP (Limit)"})) = 1

\* C8: no day has both a FORCE (Idle) row and a SWITCH or SKIP (Limit) row.
C8_ForceExcludesDrop ==
  \A i, j \in DOMAIN trade_log :
    (trade_log[i].Date = trade_log[j].Date /\ trade_log[i].Action = "FORCE (Idle)")
      => trade_log[j].Action \notin {"SWITCH", "SKIP (Limit)"}

\* C8 witness: a forced entry executed on a day on which a step is
\* drawdown-eligible and funded
C8_Witness ==
  /\ pc = "record"
  /\ forced_buy_executed
  /\ RowsOn(trade_log, date, {"FORCE (Idle)"}) # {}
  /\ \E i \in DOMAIN steps : StepEligible(i) /\ StepFunded(i)

\* C9: when entries are evaluated on a day that is not buy-paused, the idle
\* time is >= force_buy_days > 0, some step is inactive and the base holding
\* value covers 90% of port_value x shift_pct/100 of the first inactive
\* step, then a FORCE (Idle) row with that Value is logged, a FORCE lot is
\* opened, the step becomes active, the idle timer is reset, the date is
\* appended to the buy history and the step's FORCE count grows by 1.
C9_ForcedEntryExecutes ==
  [][(/\ pc = "entries"
      /\ ~is_ma_paused
      /\ cfg.force_buy_days > 0
      /\ date - last_buy_date >= cfg.force_buy_days
      /\ \E i \in DOMAIN steps : ~step_active_flags[i]
      /\ LET i == FirstInactive(step_active_flags) IN
           RGe(RMul(holdings[base_ticker], R(ClosePrice(bar, base_ticker))),
               RMul(RMul(port_value, Pct(steps[i].shift_pct)), Norm(9, 10))))
     => LET i == FirstInactive(step_active_flags) IN
          /\ Logged("FORCE (Idle)")
          /\ trade_log'[Len(trade_log')].Value = RMul(port_value, Pct(steps[i].shift_pct))
          /\ trade_log'[Len(trade_log')].StepIdx = i
          /\ Len(lots') = Len(lots) + 1
          /\ lots'[Len(lots')].entry_type = "FORCE"
          /\ lots'[Len(lots')].step_idx = i
          /\ step_active_flags'[i]
          /\ last_buy_date' = date
          /\ buy_history' = Append(buy_history, date)
          /\ step_stats'[i].FORCE.count = step_stats[i].FORCE.count + 1
    ]_vars

\* C10: the exit rule.  In limit mode a lot is sold at the open if
\* open >= target, else at the target if high >= target, else kept; in close
\* mode it is sold at the close iff (close - entry)/entry x 100 >= profit_pct.
C10_ExitRule ==
  [][(pc = "exits" /\ li <= Len(lots))
     => LET lot == lots[li]
            e == lot.price
            pct == steps[lot.step_idx].profit_pct
            o == OpenPrice(bar, lot.ticker)
            h == HighPrice(bar, lot.ticker)
            c == ClosePrice(bar, lot.ticker)
            target == Norm(e * (100 + pct), 100)
            SoldAt(p) ==
              /\ Len(trade_log') = Len(trade_log) + 1
              /\ trade_log'[Len(trade_log')].Action \in ProfitActions
              /\ trade_log'[Len(trade_log')].Ticker = lot.ticker
              /\ trade_log'[Len(trade_log')].Shares = lot.shares
              /\ trade_log'[Len(trade_log')].Price = p
              /\ trade_log'[Len(trade_log')].Value = RMul(lot.shares, p)
              /\ lots_to_remove' = lots_to_remove \cup {li}
            Kept ==
              /\ trade_log' = trade_log
              /\ lots_to_remove' = lots_to_remove
              /\ cash' = cash
              /\ holdings' = holdings
        IN  IF cfg.sell_mode = "limit"
            THEN IF 100 * o >= e * (100 + pct) THEN SoldAt(R(o))
                 ELSE IF 100 * h >= e * (100 + pct) THEN SoldAt(target)
                 ELSE Kept
            ELSE IF (c - e) * 100 >= pct * e THEN SoldAt(R(c)) ELSE Kept
    ]_vars

\* C10 witness: in limit mode a lot was sold at an open that gapped above
\* its target on a day whose close is below the target
C10_Witness ==
  /\ cfg.sell_mode = "limit"
  /\ pc = "exits"
  /\ trade_log # << >>
  /\ LET r == trade_log[Len(trade_log)]
         entry == RDiv(RMul(r.Price, R(100)), RAdd(R(100), r.ProfitPct))
         target == RMul(entry, RAdd(R(1), Pct(steps[r.StepIdx].profit_pct)))
     IN  /\ r.Action \in ProfitActions
         /\ r.Date = date
         /\ r.Price = R(OpenPrice(bar, r.Ticker))
         /\ RGt(r.Price, target)
         /\ RLt(R(ClosePrice(bar, r.Ticker)), target)
\* the base close is below the moving average of the last ma_period closes
\* (the average is defined and positive)
BelowMA ==
  /\ cfg.use_ma_filter
  /\ Len(closes) >= cfg.ma_period
  /\ SumSeq(SubSeq(closes, Len(closes) - cfg.ma_period + 1, Len(closes))) > 0
  /\ closes[Len(closes)] * cfg.ma_period
       < SumSeq(SubSeq(closes, Len(closes) - cfg.ma_period + 1, Len(closes)))

\* the instruments with a daily-record column, as a set
Held == {ordered_tickers[k] : k \in DOMAIN ordered_tickers}

\* C11: in defensive mode, when the regime check finds the base close below
\* the moving average while not liquidated, every holding becomes 0 and its
\* value at the close is added to cash, one SELL (Defensive) row is logged
\* per instrument that was held, the lots are cleared, every step flag is
\* false and liquidated is true.
C11_DefensiveLiquidation ==
  [][(pc = "regime" /\ cfg.ma_mode = "defensive" /\ ~active_defensive /\ BelowMA)
     => LET sold == {t \in Held : holdings[t] # Zero}
            new == {k \in DOMAIN trade_log' : k > Len(trade_log)}
        IN  /\ active_defensive'
            /\ \A t \in Tickers : holdings'[t] = Zero
            /\ cash' = RAdd(cash, RAdd(RMul(holdings["B"], R(ClosePrice(bar, "B"))),
                                     RMul(holdings["X"], R(ClosePrice(bar, "X")))))
            /\ Cardinality(new) = Cardinality(sold)
            /\ SubSeq(trade_log', 1, Len(trade_log)) = trade_log
            /\ \A t \in sold : \E k \in new :
                 /\ trade_log'[k].Action = "SELL (Defensive)"
                 /\ trade_log'[k].Date = date
                 /\ trade_log'[k].Ticker = t
                 /\ trade_log'[k].Shares = holdings[t]
                 /\ trade_log'[k].Value = RMul(holdings[t], R(ClosePrice(bar, t)))
            /\ lots' = << >>
            /\ \A i \in DOMAIN steps : ~step_active_flags'[i]
    ]_vars

\* the base close is strictly above the moving average
AboveMA ==
  /\ cfg.use_ma_filter
  /\ Len(closes) >= cfg.ma_period
  /\ SumSeq(SubSeq(closes, Len(closes) - cfg.ma_period + 1, Len(closes))) > 0
  /\ closes[Len(closes)] * cfg.ma_period
       > SumSeq(SubSeq(closes, Len(closes) - cfg.ma_period + 1, Len(closes)))

\* C12: while liquidated, from the liquidation day until the first day whose
\* base close is strictly above the moving average, run() goes from the
\* regime check straight to a daily record with Drawdown = 0 and
\* PortfolioValue = cash; no exit or entry is evaluated, no row is logged
\* and cash, holdings and lots do not change.
C12_LiquidatedDays ==
  /\ [](active_defensive => pc \in {"regime", "defrec", "next", "done"})
  /\ [][(pc = "regime" /\ active_defensive /\ ~AboveMA)
          => /\ active_defensive'
             /\ UNCHANGED <<cash, holdings, lots, trade_log>>]_vars
  /\ [][(pc = "regime" /\ active_defensive') => pc' = "defrec"]_vars
  /\ [][pc = "defrec"
          => /\ Len(daily_stats') = Len(daily_stats) + 1
             /\ SubSeq(daily_stats', 1, Len(daily_stats)) = daily_stats
             /\ daily_stats'[Len(daily_stats')].Date = date
             /\ daily_stats'[Len(daily_stats')].Drawdown = Zero
             /\ daily_stats'[Len(daily_stats')].PortfolioValue = cash
             /\ daily_stats'[Len(daily_stats')].Cash = cash
             /\ pc' = "next"
             /\ UNCHANGED <<cash, holdings, lots, trade_log, step_active_flags,
                            buy_history, last_buy_date>>]_vars

\* C12 witness: the defensive record of a day after the liquidation day,
\* following a traded day that had a drawdown
C12_Witness ==
  /\ pc = "next"
  /\ active_defensive
  /\ RGt(drawdown_pct, Zero)
  /\ Len(daily_stats) >= 2
  /\ daily_stats[Len(daily_stats)].Kind = "defensive"
  /\ daily_stats[Len(daily_stats) - 1].Kind = "defensive"
  /\ daily_stats[Len(daily_stats)].Date = date

\* the dates of the daily records written while liquidated
DefensiveDates ==
  {daily_stats[k].Date : k \in {j \in DOMAIN daily_stats : daily_stats[j].Kind = "defensive"}}

\* C13: a defensive liquidation changes no step statistic, and a lot it
\* discarded is never reported later: every SELL (Profit/...) or HOLDING row
\* dated on or after a liquidated day belongs to a lot bought after that day.
C13_LiquidationKeepsStats ==
  /\ [][(~active_defensive /\ active_defensive') => step_stats' = step_stats]_vars
  /\ [](\A d \in DefensiveDates : \A k \in DOMAIN trade_log :
          (trade_log[k].Action \in ProfitActions \cup {"HOLDING"} /\ trade_log[k].Date >= d)
            => trade_log[k].BuyDate > d)

\* C13 witness: a run has ended in which a liquidation discarded a lot that
\* was still open
C13_Witness ==
  /\ pc = "done"
  /\ \E d \in DefensiveDates : \E k \in DOMAIN trade_log :
       /\ trade_log[k].Action = "SWITCH"
       /\ trade_log[k].Date < d
       /\ \A j \in DOMAIN trade_log :
            trade_log[j].Action \in ProfitActions => trade_log[j].Date > d

\* the step appended a row with one of the entry actions
EntryLogged ==
  /\ Len(trade_log') > Len(trade_log)
  /\ \E k \in DOMAIN trade_log' :
       /\ k > Len(trade_log)
       /\ trade_log'[k].Action \in {"FORCE (Idle)", "SWITCH", "SKIP (Limit)"}

\* C14: in pause mode the regime check only sets buy-paused (true when the
\* close is below the moving average, false when it is above) and leaves
\* cash, holdings, lots, step flags and the trade log alone; while
\* buy-paused no FORCE (Idle), SWITCH or SKIP (Limit) row is produced and
\* the buy history and idle timer keep their values, and the exits of the
\* day are still evaluated.
C14_PauseMode ==
  /\ [][(pc = "regime" /\ cfg.ma_mode = "pause")
          => /\ is_ma_paused' = (IF BelowMA THEN TRUE
                                 ELSE IF AboveMA THEN FALSE ELSE is_ma_paused)
             /\ ~active_defensive'
             /\ UNCHANGED <<cash, holdings, lots, step_active_flags, trade_log,
                            step_stats, buy_history, last_buy_date>>]_vars
  /\ [][(is_ma_paused /\ pc # "regime")
          => /\ ~EntryLogged
             /\ UNCHANGED <<buy_history, last_buy_date>>
             /\ pc' # "drops"]_vars
  /\ [][(is_ma_paused /\ pc = "value") => (pc' = "exits" /\ li' = 1)]_vars
  /\ [][(is_ma_paused /\ pc = "exits" /\ li <= Len(lots)) => li' = li + 1]_vars

\* C14 witness: on a buy-paused day a lot was sold at a profit, its step is
\* inactive again and the idle trigger would be due
C14_Witness ==
  /\ is_ma_paused
  /\ pc = "record"
  /\ RowsOn(trade_log, date, ProfitActions) # {}
  /\ \E i \in DOMAIN steps : ~step_active_flags[i]
  /\ ForcedDue(date, last_buy_date, cfg.force_buy_days)

\* the sum of a daily record's per-instrument market values
RECURSIVE SumVal(_, _)
SumVal(rec, ts) ==
  IF ts = {} THEN Zero
  ELSE LET t == CHOOSE t \in ts : TRUE
       IN  RAdd(rec.Val[t], SumVal(rec, ts \ {t}))

\* C15: in every daily record PortfolioValue equals the record's Cash plus
\* the sum of the per-instrument market values recorded in it.
C15_RecordValueIsCashPlusHoldings ==
  \A k \in DOMAIN daily_stats :
    daily_stats[k].PortfolioValue
      = RAdd(daily_stats[k].Cash, SumVal(daily_stats[k], DOMAIN daily_stats[k].Val))

\* C16: when the price table has no close column for the base instrument,
\* run() fails before the day loop: it writes no daily record and no trade
\* log row and never processes a row with a base price of 0.
C16_MissingBaseCloseFails ==
  ~cfg.base_close
    => /\ daily_stats = << >>
       /\ trade_log = << >>
       /\ pc \in {"init", "raised"}

\* C18: with a day-0 base close p0 > 0 the initial buy leaves
\* cash = initial_capital x cash_buffer_pct/100, holds
\* (initial_capital - cash)/p0 base shares, logs exactly one BUY (Init) row
\* and cash + shares x p0 = initial_capital; with p0 zero or missing nothing
\* is bought, no row is logged and run() goes on to the day loop.
C18_InitialBuy ==
  [][pc = "init"
     => LET p0 == ClosePrice(bar, base_ticker)
            buffer == Norm(cfg.initial_capital * cfg.cash_buffer_pct, 100)
        IN  /\ cash = buffer
            /\ cash' = buffer
            /\ pc' = "regime"
            /\ \A t \in Tickers \ {base_ticker} : holdings'[t] = Zero
            /\ IF p0 > 0
               THEN /\ holdings'[base_ticker] = RDiv(RSub(R(cfg.initial_capital), buffer), R(p0))
                    /\ RAdd(cash', RMul(holdings'[base_ticker], R(p0))) = R(cfg.initial_capital)
                    /\ Len(trade_log') = 1
                    /\ trade_log'[1].Action = "BUY (Init)"
                    /\ trade_log'[1].Ticker = base_ticker
                    /\ trade_log'[1].Shares = holdings'[base_ticker]
                    /\ trade_log'[1].Price = R(p0)
               ELSE /\ holdings'[base_ticker] = Zero
                    /\ trade_log' = << >>
    ]_vars

\* C19: after the day loop every lot still open yields exactly one HOLDING
\* row, dated the last simulated date, valued at the final close, with its
\* unrealized profit; no HOLDING row is written earlier, and the
\* finalization changes no cash, holding, lot, step flag or step statistic.
C19_HoldingRows ==
  /\ [](pc # "done" => \A k \in DOMAIN trade_log : trade_log[k].Action # "HOLDING")
  /\ [][(pc # "done" /\ pc' = "done")
          => /\ Len(trade_log') = Len(trade_log) + Len(lots)
             /\ SubSeq(trade_log', 1, Len(trade_log)) = trade_log
             /\ \A k \in DOMAIN lots :
                  LET row == trade_log'[Len(trade_log) + k]
                      c == ClosePrice(bar, lots[k].ticker)
                  IN  /\ row.Action = "HOLDING"
                      /\ row.Date = date
                      /\ row.Date = daily_stats[Len(daily_stats)].Date
                      /\ row.Ticker = lots[k].ticker
                      /\ row.Shares = lots[k].shares
                      /\ row.Price = R(c)
                      /\ row.Value = RMul(lots[k].shares, R(c))
                      /\ row.ProfitAmt = RSub(row.Value, lots[k].cost)
                      /\ row.ProfitPct = Norm((c - lots[k].price) * 100, lots[k].price)
                      /\ row.StepIdx = lots[k].step_idx
                      /\ row.BuyDate = lots[k].buy_date
             /\ UNCHANGED <<cash, holdings, lots, step_active_flags, step_stats,
                            daily_stats>>]_vars

\* C19 witness: a run ended with two lots open, one of them at a loss or
\* gain against its entry price
C19_Witness ==
  /\ pc = "done"
  /\ Len(lots) = 2
  /\ Cardinality(RowsOn(trade_log, date, {"HOLDING"})) = 2
  /\ \E k \in DOMAIN trade_log :
       trade_log[k].Action = "HOLDING" /\ trade_log[k].ProfitPct # Zero

\* C20: the Trade Count of get_summary() is the number of trade-log rows
\* whose action is neither SKIP (Limit) nor HOLDING.
C20_TradeCount ==
  \A k \in DOMAIN summary :
    summary[k].Trade_Count
      = Cardinality({j \in DOMAIN trade_log :
                       trade_log[j].Action # "SKIP (Limit)" /\ trade_log[j].Action # "HOLDING"})

\* C20 witness: a summary of a run whose trade log has a SKIP (Limit) row,
\* a HOLDING row and an executed entry
C20_Witness ==
  /\ summary # << >>
  /\ \E i, j, k \in DOMAIN trade_log :
       /\ trade_log[i].Action = "SKIP (Limit)"
       /\ trade_log[j].Action = "HOLDING"
       /\ trade_log[k].Action = "SWITCH"

\* the inputs that the validation is to reject
SimInvalid ==
  \/ sim.kind = "other"
  \/ \E k \in DOMAIN sim.rows : sim.rows[k] # "ok"
  \/ sim.provider # "ok"

\* C17: run_simulation is all-or-nothing.  When it has ended, then for a
\* malformed or non-numeric step row, an unsupported steps input, an empty
\* provider result, a missing base High column or an empty window it has
\* returned (None, None, None, None) and constructed no Backtester, and
\* otherwise it has returned the four values of one completed run.
C17_AllOrNothing ==
  sim.pc \in {"returned", "raised"}
    => IF SimInvalid
       THEN sim.result = "None4" /\ ~sim.constructed
       ELSE sim.result = "four" /\ sim.constructed

\* C21: run() appends exactly one daily record per row of the price table,
\* in the table's date order, on the normal and on the liquidated path; a
\* record once appended is never changed or removed.
C21_OneRecordPerRow ==
  /\ [](Len(daily_stats) = (CASE pc \in {"init", "raised"} -> 0
                              [] pc \in {"next", "done"}   -> day + 1
                              [] OTHER                     -> day))
  /\ [](\A k \in DOMAIN daily_stats :
          /\ k > 1 => daily_stats[k - 1].Date < daily_stats[k].Date
          /\ k = Len(daily_stats) /\ pc \in {"next", "done"} => daily_stats[k].Date = date)
  /\ [][\/ daily_stats' = daily_stats
        \/ /\ Len(daily_stats') = Len(daily_stats) + 1
           /\ SubSeq(daily_stats', 1, Len(daily_stats)) = daily_stats
        \/ /\ first_run = << >>
           /\ first_run' = <<[trade_log |-> trade_log, daily_stats |-> daily_stats]>>]_vars

\* C21 witness: a run over at least three rows has ended with records of
\* both kinds
C21_Witness ==
  /\ pc = "done"
  /\ day >= 2
  /\ \E j, k \in DOMAIN daily_stats :
       daily_stats[j].Kind = "defensive" /\ daily_stats[k].Kind = "full"

\* the configuration C22 is about: no steps, trend filter off, no cash buffer
\* and a base close on every row
EmptySteps ==
  /\ cfg.steps = << >>
  /\ ~cfg.use_ma_filter
  /\ cfg.cash_buffer_pct = 0
  /\ cfg.base_close

\* C22: with an empty step list (trend filter off, cash buffer 0, positive
\* day-0 price) no entry or exit ever fires, even when force_buy_days > 0: the
\* trade log holds only the BUY (Init) row and every daily record has
\* PortfolioValue equal to BuyHoldValue.
C22_EmptyStepsIsBuyAndHold ==
  EmptySteps =>
    /\ \A k \in DOMAIN trade_log : trade_log[k].Action = "BUY (Init)"
    /\ Len(trade_log) = (IF pc = "init" THEN 0 ELSE 1)
    /\ \A k \in DOMAIN daily_stats :
         daily_stats[k].PortfolioValue = daily_stats[k].BuyHoldValue

\* C22 witness: such a run ended after the idle timer passed force_buy_days
\* and the base price moved
C22_Witness ==
  /\ EmptySteps
  /\ cfg.force_buy_days > 0
  /\ pc = "done"
  /\ date - last_buy_date >= cfg.force_buy_days
  /\ \E j, k \in DOMAIN daily_stats :
       daily_stats[j].PortfolioValue # daily_stats[k].PortfolioValue

\* C23: the holding period of the CAGR of get_summary() runs from the
\* caller's start date to the caller's end date, both days counted (the first
\* and the last data date only for a date that was not supplied), not over
\* the rows of the daily record, and the CAGR is
\* (final / initial) ^ (365.25 / days_held) - 1 with that days_held.
C23_CagrOverCallerDates ==
  \A k \in DOMAIN summary :
    LET first == IF cfg.start_date = << >> THEN daily_stats[1].Date ELSE cfg.start_date[1]
        last  == IF cfg.end_date = << >> THEN daily_stats[Len(daily_stats)].Date
                 ELSE cfg.end_date[1]
        days_held == last - first + 1
    IN  /\ days_held > 0
        /\ summary[k].CAGR.base =
             RDiv(daily_stats[Len(daily_stats)].PortfolioValue, R(cfg.initial_capital))
        /\ RMul(summary[k].CAGR.exponent, R(days_held)) = RDiv(R(36525), R(100))

\* C23 witness: a summary of a run whose caller dates lie outside the rows of
\* the data and whose portfolio value moved
C23_Witness ==
  /\ summary # << >>
  /\ cfg.start_date # << >> /\ cfg.start_date[1] < daily_stats[1].Date
  /\ cfg.end_date # << >> /\ cfg.end_date[1] > daily_stats[Len(daily_stats)].Date
  /\ summary[1].CAGR.base # R(1)

C25_ExitEffects ==
  [][/\ (pc = "exits" /\ Len(trade_log') = Len(trade_log) + 1) =>
          LET lot == lots[li]
              row == trade_log'[Len(trade_log')]
              px == row.Price
              sold(t) == IF t = lot.ticker THEN lot.shares ELSE Zero
              moved == RSub(holdings'[base_ticker],
                            RSub(holdings[base_ticker], sold(base_ticker)))
              s == lot.step_idx
              e == lot.entry_type
              other == IF e = "DROP" THEN "FORCE" ELSE "DROP"
          IN  /\ row.Action = (IF e = "DROP" THEN "SELL (Profit/DROP)"
                                             ELSE "SELL (Profit/FORCE)")
              /\ RGe(moved, Zero)
              /\ RAdd(cash', RMul(moved, R(ClosePrice(bar, base_ticker))))
                   = RAdd(cash, RMul(lot.shares, px))
              /\ \A t \in Tickers \ {base_ticker} :
                   holdings'[t] = RSub(holdings[t], sold(t))
              /\ step_stats'[s][e].profits =
                   Append(step_stats[s][e].profits,
                          RMul(RDiv(RSub(px, R(lot.price)), R(lot.price)), R(100)))
              /\ step_stats'[s][e].amts =
                   Append(step_stats[s][e].amts,
                          RSub(RMul(lot.shares, px), RMul(lot.shares, R(lot.price))))
              /\ step_stats'[s][e].count = step_stats[s][e].count
              /\ step_stats'[s][other] = step_stats[s][other]
              /\ \A k \in DOMAIN step_stats : k # s => step_stats'[k] = step_stats[k]
              /\ ~step_active_flags'[s]
              /\ \A k \in DOMAIN step_active_flags :
                   k # s => step_active_flags'[k] = step_active_flags[k]
              /\ lots' = lots
              /\ lots_to_remove' = lots_to_remove \cup {li}
     /\ (pc = "exits" /\ pc' # "exits") =>
          LET keep == {i \in DOMAIN lots : i \notin lots_to_remove} IN
            /\ Len(lots') = Cardinality(keep)
            /\ \A i \in keep : lots'[Cardinality({j \in keep : j <= i})] = lots[i]]_vars

\* C25 witness: the exit loop has ended on a day on which two lots were sold,
\* one of them entered by a forced entry
C25_Witness ==
  /\ pc = "exits"
  /\ li > Len(lots)
  /\ Cardinality(lots_to_remove) >= 2
  /\ \E i \in lots_to_remove : lots[i].entry_type = "FORCE"

\* an exit executes in this step
ExitExecutes == pc = "exits" /\ Len(trade_log') = Len(trade_log) + 1

\* cash and holdings right after the sale of the lot under evaluation, before
\* the deployment step
CashAfterSale == RAdd(cash, RMul(lots[li].shares, trade_log'[Len(trade_log')].Price))

HoldingsAfterSale == [holdings EXCEPT ![lots[li].ticker] = RSub(@, lots[li].shares)]

\* C26: with cash_buffer_pct > 0, immediately after each executed exit, with
\* equity = cash + sum of shares x close and target = equity x buffer / 100:
\* if cash - target > 10% of target, exactly the excess is moved from cash
\* into the base at the close (cash becomes target), rebalance_count grows by
\* 1 and total_rebalanced by the excess; otherwise the deployment step
\* changes neither cash, holdings nor the rebalance counters.
C26_Rebalance ==
  [][(ExitExecutes /\ cfg.cash_buffer_pct > 0) =>
       LET c1 == CashAfterSale
           h1 == HoldingsAfterSale
           equity == RAdd(c1, SumVal([Val |-> [t \in Tickers |->
                       RMul(h1[t], R(ClosePrice(bar, t)))]], Tickers))
           target == RDiv(RMul(equity, R(cfg.cash_buffer_pct)), R(100))
           excess == RSub(c1, target)
       IN  IF RGt(excess, RDiv(target, R(10)))
           THEN /\ cash' = target
                /\ holdings' = [h1 EXCEPT ![base_ticker] =
                     RAdd(@, RDiv(excess, R(ClosePrice(bar, base_ticker))))]
                /\ rebalance_count' = rebalance_count + 1
                /\ total_rebalanced' = RAdd(total_rebalanced, excess)
           ELSE /\ cash' = c1
                /\ holdings' = h1
                /\ rebalance_count' = rebalance_count
                /\ total_rebalanced' = total_rebalanced]_vars

\* C26 witness: with a cash buffer configured, an exit has rebalanced and a
\* later exit has left the cash where it was
C26_Witness ==
  /\ cfg.cash_buffer_pct > 0
  /\ pc = "exits"
  /\ rebalance_count >= 1
  /\ Cardinality({k \in DOMAIN trade_log : trade_log[k].Action \in ProfitActions})
       > rebalance_count
  /\ trade_log[Len(trade_log)].Action \in ProfitActions
  /\ trade_log[Len(trade_log)].Date = date

CloseAgainstMA ==
  LET total == SumSeq(SubSeq(closes, Len(closes) - cfg.ma_period + 1, Len(closes)))
      scaled == ClosePrice(bar, base_ticker) * cfg.ma_period
  IN  IF scaled < total THEN -1 ELSE IF scaled = total THEN 0 ELSE 1

MaxLimit == 2

\* C29: check_buy_limits(date) returns True when max_buys_day and
\* max_buys_week are both 0; otherwise it returns False if max_buys_day > 0
\* and the buy-history timestamps on date's calendar day number at least
\* max_buys_day, or if max_buys_week > 0 and those in the inclusive window
\* [date - 6 days, date] number at least max_buys_week, and True in all other
\* cases; a buy exactly 6 days earlier is counted and one 7 days earlier is
\* not.  The function is applied to the buy history of every state in which
\* the drop loop runs, for the current date and the seven that follow it, and
\* for every pair of limits up to MaxLimit.
C29_CheckBuyLimits ==
  /\ pc = "drops" => \A d \in date .. date + 7 : \A md, mw \in 0 .. MaxLimit :
       LET on_day == Cardinality({k \in DOMAIN buy_history : buy_history[k] = d})
           in_week == Cardinality({k \in DOMAIN buy_history :
                        d - 6 <= buy_history[k] /\ buy_history[k] <= d})
           result == CheckBuyLimits(buy_history, d, md, mw)
       IN  /\ (md = 0 /\ mw = 0) => result
           /\ (md > 0 \/ mw > 0) =>
                (~result <=> (\/ md > 0 /\ on_day >= md
                              \/ mw > 0 /\ in_week >= mw))
           /\ (\E k \in DOMAIN buy_history : buy_history[k] = d - 6) =>
                ~CheckBuyLimits(buy_history, d, 0, 1)
           /\ (buy_history # << >> /\ \A k \in DOMAIN buy_history : buy_history[k] = d - 7) =>
                CheckBuyLimits(buy_history, d, 0, 1)
  \* the instance is throttled by the function applied to its own history
  /\ (pc = "drops" /\ si > 1 /\ trade_log # << >>
        /\ trade_log[Len(trade_log)].Action = "SKIP (Limit)"
        /\ trade_log[Len(trade_log)].Date = date)
       => ~CheckBuyLimits(buy_history, date, cfg.max_buys_day, cfg.max_buys_week)

\* C29 witness: a step was rejected under a weekly limit by a buy made exactly
\* six days before
C29_Witness ==
  /\ cfg.max_buys_week > 0
  /\ trade_log # << >>
  /\ trade_log[Len(trade_log)].Action = "SKIP (Limit)"
  /\ trade_log[Len(trade_log)].Date = date
  /\ buy_history # << >>
  /\ \A k \in DOMAIN buy_history : buy_history[k] = date - 6

\* C30: for a drawdown-eligible step the funding check precedes the throttle
\* check: if the base holding value is below 90% of the shift amount the step
\* is skipped with no trade-log row and no state change; if it is funded but
\* check_buy_limits rejects it, exactly one SKIP (Limit) row is logged and
\* cash, holdings, lots, step flags, buy history, idle timer and step buy
\* counts are unchanged; in both cases the later steps are still evaluated
\* that day.
C30_FundingBeforeThrottle ==
  [][(pc = "drops" /\ si <= Len(steps)
        /\ RGe(drawdown_pct, R(Abs(steps[si].drop_pct)))
        /\ ~step_active_flags[si]) =>
       LET shift == RDiv(RMul(port_value, R(steps[si].shift_pct)), R(100))
           base_val == RMul(holdings[base_ticker], R(ClosePrice(bar, base_ticker)))
           unfunded == RLt(base_val, RDiv(RMul(shift, R(9)), R(10)))
           rejected == ~CheckBuyLimits(buy_history, date, cfg.max_buys_day,
                                       cfg.max_buys_week)
           goes_on == /\ si' = si + 1
                      /\ pc' = (IF si < Len(steps) THEN "drops" ELSE "record")
       IN  /\ unfunded =>
                /\ goes_on
                /\ UNCHANGED <<trade_log, cash, holdings, lots, step_active_flags,
                               buy_history, last_buy_date, step_stats,
                               rebalance_count, total_rebalanced, daily_stats,
                               bh_shares, active_defensive, is_ma_paused,
                               peak_price, drawdown_pct, port_value>>
           /\ (~unfunded /\ rejected) =>
                /\ goes_on
                /\ Len(trade_log') = Len(trade_log) + 1
                /\ SubSeq(trade_log', 1, Len(trade_log)) = trade_log
                /\ trade_log'[Len(trade_log')].Action = "SKIP (Limit)"
                /\ trade_log'[Len(trade_log')].Date = date
                /\ trade_log'[Len(trade_log')].Ticker = steps[si].ticker
                /\ UNCHANGED <<cash, holdings, lots, step_active_flags,
                               buy_history, last_buy_date, step_stats>>]_vars

\* C30 witness: on one day the first step was rejected by the throttle and
\* the second, evaluated after it, was rejected too
C30_Witness ==
  /\ Len(trade_log) >= 2
  /\ LET a == trade_log[Len(trade_log) - 1]
         b == trade_log[Len(trade_log)]
     IN  /\ a.Action = "SKIP (Limit)" /\ a.Date = date /\ a.StepIdx = 1
         /\ b.Action = "SKIP (Limit)" /\ b.Date = date /\ b.StepIdx = 2

\* C31: with the trend filter enabled and averaging period P, on the first
\* P - 1 simulated days the moving average is undefined and the regime check
\* is ignored: liquidated and buy-paused both remain false and no
\* SELL (Defensive) or BUY (Resume) row is logged, whatever the prices are.
C31_WarmUp ==
  cfg.use_ma_filter =>
    /\ day < cfg.ma_period - 1 =>
         /\ ~active_defensive
         /\ ~is_ma_paused
         /\ \A k \in DOMAIN trade_log :
              trade_log[k].Action \notin {"SELL (Defensive)", "BUY (Resume)"}
    /\ \A k \in DOMAIN trade_log :
         trade_log[k].Action \in {"SELL (Defensive)", "BUY (Resume)"} =>
           Cardinality({j \in DOMAIN daily_stats :
                          daily_stats[j].Date < trade_log[k].Date}) >= cfg.ma_period - 1
    /\ \A j \in DOMAIN daily_stats :
         j < cfg.ma_period => daily_stats[j].Kind = "full"

\* C31 witness: with a period of 3 the second day has been recorded after the
\* base close fell below the first day's
C31_Witness ==
  /\ cfg.use_ma_filter
  /\ cfg.ma_period = 3
  /\ day = 1
  /\ pc = "next"
  /\ closes[2] < closes[1]

\* a stored cell equals a value of the record, numbers compared numerically
SameValue(cell, val) ==
  \/ cell.k \in {"int", "float"} /\ val.k \in {"int", "float"} /\ cell.n = val.n
  \/ cell.k = "str" /\ val.k = "str" /\ cell.s = val.s
  \/ cell.k = "empty" /\ val.k \in {"none", "empty"}

\* a stored row equals the record on every field except Timestamp
SameRecord(row, r) == \A c \in ColsToCheck : SameValue(row[c], r[c])

\* C32: log_simulation_history(params, summary) leaves the stored history
\* unchanged when an existing row equals the new record on every field except
\* Timestamp (numeric fields compared numerically, so 30 matches 30.0), and
\* otherwise appends exactly one row while preserving all earlier rows.
C32_LogOnce ==
  [][now' = now + 1 =>
       LET r == logged'[1] IN
         IF \E i \in DOMAIN hist : SameRecord(hist[i], r)
         THEN hist' = hist
         ELSE /\ Len(hist') = Len(hist) + 1
              /\ \A i \in DOMAIN hist :
                   /\ hist'[i].Timestamp = hist[i].Timestamp
                   /\ SameRecord(hist'[i], hist[i])
              /\ SameRecord(hist'[Len(hist')], r)]_vars

\* C33: at the end of every simulated day, step i's active flag is true if
\* and only if exactly one open lot has step_idx = i.
C33_FlagIffLot ==
  pc \in {"next", "done"} =>
    \A i \in DOMAIN steps :
      step_active_flags[i]
        <=> Cardinality({k \in DOMAIN lots : lots[k].step_idx = i}) = 1

\* C33 witness: a day ends with one step holding its lot and another step
\* without a lot after its profit exit
C33_Witness ==
  /\ pc = "next"
  /\ \E i, j \in DOMAIN steps :
       /\ step_active_flags[i]
       /\ \E k \in DOMAIN lots : lots[k].step_idx = i
       /\ ~step_active_flags[j]
       /\ \E r \in DOMAIN trade_log :
            /\ trade_log[r].Action \in ProfitActions
            /\ trade_log[r].StepIdx = j

\* C34: with max_buys_week = W > 0 the number of buy-history timestamps
\* inside any inclusive window [d - 6 days, d] never exceeds W, forced idle
\* entries counted as well as drawdown entries.
C34_WeeklyLimit ==
  cfg.max_buys_week > 0 =>
    \A k \in DOMAIN buy_history :
      CountIn(buy_history, buy_history[k] - 6, buy_history[k]) <= cfg.max_buys_week

\* C35: the cash balance is >= 0 in every reachable state of run().
C35_CashNonNegative == RGe(cash, Zero)

\* step j's lot was closed by a profit exit on the current day
ExitedToday(j) ==
  \E r \in DOMAIN trade_log :
    /\ trade_log[r].Action \in ProfitActions
    /\ trade_log[r].Date = date
    /\ trade_log[r].StepIdx = j

\* the entry evaluation of the current day has logged a row
EntryRowToday ==
  \E r \in DOMAIN trade_log :
    /\ trade_log[r].Action \in {"SWITCH", "FORCE (Idle)", "SKIP (Limit)"}
    /\ trade_log[r].Date = date

\* C36: exits are evaluated before entries: a profit exit clears the step's
\* flag before the day's entry evaluation has logged anything and leaves
\* port_value as it was computed; in the drop loop a step exited that day
\* has its flag cleared and, when drawdown, funding and throttle allow, opens
\* a new lot on the same day whose shift amount is that port_value times the
\* step's shift percentage.
C36_SameDayReentry ==
  [][/\ ExitExecutes =>
          /\ ~EntryRowToday
          /\ ~step_active_flags'[lots[li].step_idx]
          /\ port_value' = port_value
     /\ (pc = "drops" /\ si <= Len(steps) /\ ExitedToday(si)) =>
          /\ ~step_active_flags[si]
          /\ (/\ RGe(drawdown_pct, R(Abs(steps[si].drop_pct)))
              /\ StepFunded(si)
              /\ StepAllowed
              /\ ClosePrice(bar, steps[si].ticker) > 0) =>
               /\ Len(trade_log') = Len(trade_log) + 1
               /\ LET row == trade_log'[Len(trade_log')] IN
                    /\ row.Action = "SWITCH"
                    /\ row.Date = date
                    /\ row.StepIdx = si
                    /\ row.Value = RMul(port_value, Pct(steps[si].shift_pct))
               /\ Len(lots') = Len(lots) + 1
               /\ lots'[Len(lots')].step_idx = si
               /\ lots'[Len(lots')].buy_date = date
               /\ step_active_flags'[si]]_vars

\* C36 witness: a step was exited at a fill price other than the close and
\* entered again on the same day
C36_Witness ==
  \E r1, r2 \in DOMAIN trade_log :
    /\ r1 < r2
    /\ trade_log[r1].Action \in ProfitActions
    /\ trade_log[r2].Action = "SWITCH"
    /\ trade_log[r1].Date = trade_log[r2].Date
    /\ trade_log[r1].StepIdx = trade_log[r2].StepIdx
    /\ trade_log[r1].Price # R(ClosePrice(bar, trade_log[r1].Ticker))
    /\ trade_log[r2].Date = date
    /\ \E k \in DOMAIN lots :
         lots[k].step_idx = trade_log[r2].StepIdx /\ lots[k].buy_date = date

\* the rows of the trade log with the given action and step index
StepRows(action, i) ==
  {r \in DOMAIN trade_log : trade_log[r].Action = action /\ trade_log[r].StepIdx = i}

\* C37: at the end of any run, for every step the DROP buy count equals the
\* number of SWITCH rows of the step, the FORCE buy count equals the number
\* of FORCE (Idle) rows of the step, and the number of realized profits of
\* each bucket does not exceed the bucket's buy count.
C37_BuyCounts ==
  pc = "done" =>
    \A i \in DOMAIN steps :
      /\ step_stats[i].DROP.count = Cardinality(StepRows("SWITCH", i))
      /\ step_stats[i].FORCE.count = Cardinality(StepRows("FORCE (Idle)", i))
      /\ Len(step_stats[i].DROP.profits) <= step_stats[i].DROP.count
      /\ Len(step_stats[i].FORCE.profits) <= step_stats[i].FORCE.count

RECURSIVE SumOver(_, _)
SumOver(f, ys) ==
  IF ys = {} THEN 0
  ELSE LET y == CHOOSE y \in ys : TRUE IN f[y] + SumOver(f, ys \ {y})

\* C38: in get_annual_stats() every trade-log row's date falls in a calendar
\* year present in the daily records, so the per-year trade counts sum to the
\* trade count of the Total column, which equals get_summary()'s Trade Count.
C38_AnnualTrades ==
  annual # << >> =>
    /\ \A r \in DOMAIN trade_log : YearOf(trade_log[r].Date) \in annual[1].years
    /\ SumOver(annual[1].trades, annual[1].years) = annual[1].total
    /\ annual[1].total = summary[1].Trade_Count

\* C38 witness: the run spans more than one year, two years have counted
\* trades, and the log holds a SKIP (Limit) row that no count takes
C38_Witness ==
  /\ annual # << >>
  /\ \E y1, y2 \in annual[1].years :
       y1 # y2 /\ annual[1].trades[y1] > 0 /\ annual[1].trades[y2] > 0
  /\ \E r \in DOMAIN trade_log : trade_log[r].Action = "SKIP (Limit)"

====
